---- MODULE Spec2Model ----
(***************************************************************************)
(* Selection-expression subsystem of dbt-fusion: the evaluator of          *)
(* REFERENCE_IMPLEMENTATION.rs and the YAML selector parser of             *)
(* crates/dbt-selector-parser/src/parser.rs.                               *)
(*                                                                         *)
(* Strings are sequences of symbols.  A symbol is one letter of the        *)
(* alphabet: the separators "*", ".", ":" and "/" are letters of their     *)
(* own, and every other symbol ("production", "bronze_", ...) stands for   *)
(* one letter that is none of the separators.  Node identifiers are never  *)
(* taken apart and stay TLA+ strings.                                      *)
(*                                                                         *)
(* Option<T> is a sequence of length at most one: None == <<>>,            *)
(* Some(x) == <<x>>.                                                       *)
(***************************************************************************)
EXTENDS Integers, Sequences, FiniteSets, TLC

VARIABLES
    all_nodes,   \* the node collection handed to the evaluator
    defs,        \* SelectorParser.defs: the named-selector registry
    surface,     \* the surface definition (or selector name) handed to the parser
    call,        \* the parser operation that was called on it
    outcome,     \* the FsResult of the last parser call
    warnings,    \* what emit_warn_log_message has emitted so far
    expr,        \* the SelectExpression being built / parsed / evaluated
    result,      \* the BTreeSet<NodeId> of the last evaluation
    effective_mode, \* the mode of the last set_indirect_selection, if any
    pc           \* where the lifecycle of the current selector stands

vars == <<all_nodes, defs, surface, call, outcome, warnings, expr, result, effective_mode, pc>>

None == <<>>
Some(x) == <<x>>

---------------------------------------------------------------------------
(* Bounds of the model.                                                    *)

\* longest operand list of an And / Or built directly as an expression
MaxOps == 3

\* longest list of sub-definitions of a composite drawn from ListEntries
MaxItems == 3

\* nested parse_named calls the call stack has room for
MaxDepth == 4

---------------------------------------------------------------------------
(* Strings.                                                                *)

\* str::contains(ch)
contains(s, ch) == \E i \in 1..Len(s) : s[i] = ch

RECURSIVE split(_, _)
\* str::split(ch): the pieces between the occurrences of ch (n occurrences
\* give n + 1 pieces, empty pieces included)
split(s, ch) ==
    IF ~contains(s, ch) THEN <<s>>
    ELSE LET i == CHOOSE k \in 1..Len(s) :
                      s[k] = ch /\ \A j \in 1..(k - 1) : s[j] # ch
         IN  <<SubSeq(s, 1, i - 1)>> \o split(SubSeq(s, i + 1, Len(s)), ch)

\* str::starts_with
starts_with(value, prefix) ==
    Len(prefix) <= Len(value) /\ SubSeq(value, 1, Len(prefix)) = prefix

\* str::ends_with
ends_with(value, suffix) ==
    /\ Len(suffix) <= Len(value)
    /\ SubSeq(value, Len(value) - Len(suffix) + 1, Len(value)) = suffix

RECURSIVE join(_, _)
\* [String]::join(sep)
join(parts, sep) ==
    IF parts = <<>> THEN <<>>
    ELSE IF Len(parts) = 1 THEN parts[1]
    ELSE parts[1] \o <<sep>> \o join(Tail(parts), sep)

---------------------------------------------------------------------------
(* The expression model (dbt_common::node_selector), as the two source     *)
(* files construct and match it.                                           *)

\* SelectionCriteria::new(method, method_args, value, childrens_parents,
\*                        parents_depth, children_depth, indirect, exclude)
SelectionCriteria_new(method, method_args, value, childrens_parents, parents_depth, children_depth, indirect, exclude) ==
    [method |-> method, method_args |-> method_args, value |-> value,
     childrens_parents |-> childrens_parents,
     parents_depth |-> parents_depth, children_depth |-> children_depth,
     indirect |-> indirect, exclude |-> exclude]

Atom(criteria) == [tag |-> "Atom", criteria |-> criteria]
And(exprs) == [tag |-> "And", exprs |-> exprs]
Or(exprs) == [tag |-> "Or", exprs |-> exprs]
Exclude(inner) == [tag |-> "Exclude", inner |-> inner]

\* the absent expression (before construction, after a failed parse)
NoExpr == [tag |-> "NoExpr"]

\* the indirect-selection modes the propagator is called with
Modes == {"Eager", "Cautious", "Buildable"}

RECURSIVE set_indirect_selection(_, _)
RECURSIVE set_indirect_selection_keeping(_, _)

\* the propagator gone wrong: a mode that is already set is kept
set_indirect_selection_keeping(e, selection) ==
    CASE e.tag = "Atom" ->
            IF e.criteria.indirect = None
            THEN Atom([e.criteria EXCEPT !.indirect = Some(selection)])
            ELSE e
      [] e.tag \in {"And", "Or"} ->
            [e EXCEPT !.exprs = [i \in 1..Len(e.exprs) |-> set_indirect_selection_keeping(e.exprs[i], selection)]]
      [] e.tag = "Exclude" -> Exclude(set_indirect_selection_keeping(e.inner, selection))

\* SelectExpression::set_indirect_selection: every Atom gets the mode,
\* And / Or recurse into every operand, Exclude into its inner expression
set_indirect_selection(e, selection) ==
    CASE e.tag = "Atom" -> Atom([e.criteria EXCEPT !.indirect = Some(selection)])
      [] e.tag \in {"And", "Or"} ->
            [e EXCEPT !.exprs = [i \in 1..Len(e.exprs) |-> set_indirect_selection(e.exprs[i], selection)]]
      [] e.tag = "Exclude" -> Exclude(set_indirect_selection(e.inner, selection))

---------------------------------------------------------------------------
(* Nodes.                                                                  *)

BronzeDir == <<"models", "/", "test_exclude", "/", "bronze", "/">>

\* create_test_nodes(): bronze_1, bronze_2 tagged production; bronze_3
\* tagged production and deprecated
create_test_nodes ==
    << [unique_id |-> "model.test.bronze_1",
        fqn |-> << <<"test">>, <<"bronze_1">> >>,
        tags |-> << <<"production">> >>,
        resource_type |-> <<"model">>,
        path |-> BronzeDir \o <<"bronze_", "1", ".sql">>,
        package_name |-> <<"test">>],
       [unique_id |-> "model.test.bronze_2",
        fqn |-> << <<"test">>, <<"bronze_2">> >>,
        tags |-> << <<"production">> >>,
        resource_type |-> <<"model">>,
        path |-> BronzeDir \o <<"bronze_", "2", ".sql">>,
        package_name |-> <<"test">>],
       [unique_id |-> "model.test.bronze_3",
        fqn |-> << <<"test">>, <<"bronze_3">> >>,
        tags |-> << <<"production">>, <<"deprecated">> >>,
        resource_type |-> <<"model">>,
        path |-> BronzeDir \o <<"bronze_", "3", ".sql">>,
        package_name |-> <<"test">>] >>

\* Node::matches_pattern
matches_pattern(value, pattern) ==
    IF contains(pattern, "*") /\ Len(split(pattern, "*")) = 2
    THEN LET parts == split(pattern, "*")
         IN  starts_with(value, parts[1]) /\ ends_with(value, parts[2])
    ELSE value = pattern

\* Node::matches_criteria
matches_criteria(node, criteria) ==
    CASE criteria.method = "Tag" ->
            \E i \in 1..Len(node.tags) : matches_pattern(node.tags[i], criteria.value)
      [] criteria.method = "Fqn" ->
            matches_pattern(join(node.fqn, "."), criteria.value)
      [] criteria.method = "Path" ->
            matches_pattern(node.path, criteria.value)
      [] criteria.method = "ResourceType" ->
            node.resource_type = criteria.value
      [] criteria.method = "Package" ->
            node.package_name = criteria.value
      [] OTHER -> FALSE

---------------------------------------------------------------------------
(* The evaluator.                                                          *)

RECURSIVE evaluate_select_expression(_, _)
RECURSIVE evaluate_atom(_, _)
RECURSIVE evaluate_and(_, _)
RECURSIVE evaluate_or(_, _)
RECURSIVE evaluate_exclude(_, _)
RECURSIVE evaluate_and_buggy(_, _)
RECURSIVE and_loop(_, _, _, _)
RECURSIVE and_loop_buggy(_, _, _, _)
RECURSIVE and_loop_stopping(_, _, _, _)
RECURSIVE and_loop_keeping(_, _, _, _)
RECURSIVE and_loop_intersecting(_, _, _, _)
RECURSIVE and_loop_buggy_skipping(_, _, _, _)

\* the identifiers of the nodes of the collection that match the criteria
\* (the for loop of evaluate_atom)
direct_matches(criteria, nodes) ==
    { nodes[i].unique_id : i \in { j \in 1..Len(nodes) : matches_criteria(nodes[j], criteria) } }

\* evaluate_atom gone wrong: the nested exclude is not subtracted
evaluate_atom_direct(criteria, nodes) == direct_matches(criteria, nodes)

evaluate_atom(criteria, nodes) ==
    LET matched == direct_matches(criteria, nodes)
    IN  IF criteria.exclude # None
        THEN LET excluded_nodes == evaluate_select_expression(criteria.exclude[1], nodes)
             IN  { id \in matched : id \notin excluded_nodes }
        ELSE matched

\* the loop gone wrong: it ends at the first Exclude operand
and_loop_stopping(exprs, i, running, nodes) ==
    IF i > Len(exprs) THEN running
    ELSE LET matched == evaluate_select_expression(exprs[i], nodes)
         IN  IF exprs[i].tag = "Exclude"
             THEN { id \in running : id \notin matched }
             ELSE and_loop_stopping(exprs, i + 1, { id \in running : id \in matched }, nodes)

\* the loop gone wrong: an Exclude operand removes nothing
and_loop_keeping(exprs, i, running, nodes) ==
    IF i > Len(exprs) THEN running
    ELSE LET matched == evaluate_select_expression(exprs[i], nodes)
         IN  IF exprs[i].tag = "Exclude"
             THEN and_loop_keeping(exprs, i + 1, running, nodes)
             ELSE and_loop_keeping(exprs, i + 1, { id \in running : id \in matched }, nodes)

\* the loop gone wrong: an Exclude operand is intersected like any other
and_loop_intersecting(exprs, i, running, nodes) ==
    IF i > Len(exprs) THEN running
    ELSE LET matched == evaluate_select_expression(exprs[i], nodes)
         IN  and_loop_intersecting(exprs, i + 1, { id \in running : id \in matched }, nodes)

\* the loop `for expr in &exprs[1..]` of evaluate_and, from operand i on
and_loop(exprs, i, running, nodes) ==
    IF i > Len(exprs) THEN running
    ELSE LET matched == evaluate_select_expression(exprs[i], nodes)
         IN  IF exprs[i].tag = "Exclude"
             THEN and_loop(exprs, i + 1, { id \in running : id \notin matched }, nodes)
             ELSE and_loop(exprs, i + 1, { id \in running : id \in matched }, nodes)

\* evaluate_and gone wrong: an Exclude operand that matches nothing clears
\* the result (the historical defect)
evaluate_and_clearing(exprs, nodes) ==
    IF exprs = <<>> THEN {}
    ELSE and_loop_buggy(exprs, 2, evaluate_select_expression(exprs[1], nodes), nodes)

evaluate_and(exprs, nodes) ==
    IF exprs = <<>> THEN {}
    ELSE and_loop(exprs, 2, evaluate_select_expression(exprs[1], nodes), nodes)

\* evaluate_or gone wrong: an Or without operands selects every node
evaluate_or_universal(exprs, nodes) ==
    IF exprs = <<>> THEN { nodes[i].unique_id : i \in 1..Len(nodes) }
    ELSE UNION { evaluate_select_expression(exprs[i], nodes) : i \in 1..Len(exprs) }

evaluate_or(exprs, nodes) ==
    UNION { evaluate_select_expression(exprs[i], nodes) : i \in 1..Len(exprs) }

\* evaluate_exclude gone wrong: a true complement over the node collection
evaluate_exclude_complement(inner_expr, nodes) ==
    { nodes[i].unique_id : i \in 1..Len(nodes) } \ evaluate_select_expression(inner_expr, nodes)

evaluate_exclude(inner_expr, nodes) ==
    evaluate_select_expression(inner_expr, nodes)

evaluate_select_expression(e, nodes) ==
    CASE e.tag = "Atom" -> evaluate_atom(e.criteria, nodes)
      [] e.tag = "And" -> evaluate_and(e.exprs, nodes)
      [] e.tag = "Or" -> evaluate_or(e.exprs, nodes)
      [] e.tag = "Exclude" -> evaluate_exclude(e.inner, nodes)

\* the historical loop gone wrong: an Exclude operand that matches a node
\* removes nothing
and_loop_buggy_skipping(exprs, i, running, nodes) ==
    IF i > Len(exprs) THEN running
    ELSE LET matched == evaluate_select_expression(exprs[i], nodes)
         IN  IF exprs[i].tag = "Exclude"
             THEN IF matched = {} THEN {}
                  ELSE and_loop_buggy_skipping(exprs, i + 1, running, nodes)
             ELSE and_loop_buggy_skipping(exprs, i + 1, { id \in running : id \in matched }, nodes)

\* the loop of evaluate_and_buggy: an Exclude operand that matches nothing
\* returns the empty set at once
and_loop_buggy(exprs, i, running, nodes) ==
    IF i > Len(exprs) THEN running
    ELSE LET matched == evaluate_select_expression(exprs[i], nodes)
         IN  IF exprs[i].tag = "Exclude"
             THEN IF matched = {} THEN {}
                  ELSE and_loop_buggy(exprs, i + 1, { id \in running : id \notin matched }, nodes)
             ELSE and_loop_buggy(exprs, i + 1, { id \in running : id \in matched }, nodes)

evaluate_and_buggy(exprs, nodes) ==
    IF exprs = <<>> THEN {}
    ELSE and_loop_buggy(exprs, 2, evaluate_select_expression(exprs[1], nodes), nodes)

---------------------------------------------------------------------------
(* Inputs of the evaluator: node collections and expression trees.         *)

\* the sub-collections of the test nodes, in the order of create_test_nodes
RECURSIVE pick(_, _, _)
pick(nodes, keep, i) ==
    IF i > Len(nodes) THEN <<>>
    ELSE (IF i \in keep THEN <<nodes[i]>> ELSE <<>>) \o pick(nodes, keep, i + 1)

NodeCollections ==
    { pick(create_test_nodes, keep, 1) : keep \in SUBSET (1..Len(create_test_nodes)) }

\* an atom as the tests of both files build it: no method arguments, no
\* graph operators, no indirect mode, no nested exclude
criteria(method, value) ==
    SelectionCriteria_new(method, <<>>, value, FALSE, None, None, None, None)

\* the same atom with a nested exclude expression
criteria_excluding(method, value, exclude) ==
    SelectionCriteria_new(method, <<>>, value, FALSE, None, None, None, Some(exclude))

TagProduction == criteria("Tag", <<"production">>)
TagDeprecated == criteria("Tag", <<"deprecated">>)
PathTypo == criteria("Path", <<"models", "/", "test_exclude", "/", "bronse", "/", "no_such_", "*">>)
PathBronze == criteria("Path", BronzeDir \o <<"bronze_", "*">>)
PathAll == criteria("Path", BronzeDir \o <<"*">>)
FqnBronze1 == criteria("Fqn", <<"test", ".", "bronze_1">>)
FqnStar == criteria("Fqn", <<"test", ".", "*">>)
TypeModel == criteria("ResourceType", <<"model">>)
PackageTest == criteria("Package", <<"test">>)
PackageOther == criteria("Package", <<"other">>)
StateNew == criteria("State", <<"new">>)

\* the atoms that occur as operands of the And / Or lists
OperandCriteria == {TagProduction, TagDeprecated, PathTypo, FqnBronze1}

\* every atom of the model
AllCriteria ==
    OperandCriteria \cup {PathBronze, PathAll, FqnStar, TypeModel, PackageTest, PackageOther, StateNew}

SeqsUpTo(S, n) == UNION { [1..k -> S] : k \in 0..n }

PlainAtoms == { Atom(c) : c \in OperandCriteria }

\* production nodes that are not deprecated, as one atom
NestedAtom == Atom(criteria_excluding("Tag", <<"production">>, Atom(TagDeprecated)))

SimpleExprs == PlainAtoms \cup {NestedAtom}

\* what an operand list holds: an atom, or an Exclude of one
Operands == SimpleExprs \cup { Exclude(e) : e \in SimpleExprs }

\* And / Or over operand lists of up to MaxOps operands
FlatComposites ==
    { And(s) : s \in SeqsUpTo(Operands, MaxOps) } \cup { Or(s) : s \in SeqsUpTo(Operands, MaxOps) }

\* And / Or of no, one or two plain atoms, used as the X and Y of the
\* deeper trees
InnerCriteria == {TagProduction, TagDeprecated, PathTypo}
InnerComposites ==
    LET atoms == { Atom(c) : c \in InnerCriteria }
        lists == {<<>>} \cup { <<a>> : a \in atoms } \cup { <<a, b>> : a \in atoms, b \in atoms }
    IN  { And(s) : s \in lists } \cup { Or(s) : s \in lists }

DeepComposites ==
    UNION { { And(<<x, Exclude(y)>>), And(<<Exclude(y), x>>), Or(<<x, Exclude(y)>>) } :
            x \in InnerComposites, y \in InnerComposites }

\* what an atom's nested exclude field may hold
NestedExcludes == Operands \cup InnerComposites

AtomExprs ==
    { Atom(c) : c \in AllCriteria } \cup
    { Atom(criteria_excluding(c.method, c.value, e)) : c \in AllCriteria, e \in NestedExcludes }

TopExcludes == { Exclude(e) : e \in Operands \cup InnerComposites \cup AtomExprs }

Exprs == AtomExprs \cup FlatComposites \cup DeepComposites \cup TopExcludes


---------------------------------------------------------------------------
(* Surface definitions (dbt_schemas::schemas::selectors), as parser.rs     *)
(* takes them apart.  The nesting SelectorDefinitionValue::Full(           *)
(* SelectorExpr::Atom(AtomExpr::Method(..))) is flattened into the field   *)
(* `form`; a BTreeMap is the sequence of its entries in key order.         *)

\* SelectorDefinitionValue::String(s)
String(s) == [form |-> "String", s |-> s]

\* one entry of CompositeExpr.kind: the key and the CompositeKind under it
KindEntry(key, variant, values) == [key |-> key, variant |-> variant, values |-> values]

\* SelectorDefinitionValue::Full(SelectorExpr::Composite(CompositeExpr { kind }))
Composite(kind) == [form |-> "Composite", kind |-> kind]

\* the helper `composite` of the tests: a one-entry operator map
composite(kind, items) ==
    Composite(<<KindEntry(<<kind>>, IF kind = "union" THEN "Union" ELSE "Intersection", items)>>)

\* SelectorDefinitionValue::Full(SelectorExpr::Atom(AtomExpr::Method(MethodAtomExpr { .. })))
MethodAtomExpr(method, value, childrens_parents, parents, children, parents_depth, children_depth, indirect_selection, exclude) ==
    [form |-> "Method", method |-> method, value |-> value,
     childrens_parents |-> childrens_parents, parents |-> parents,
     children |-> children, parents_depth |-> parents_depth,
     children_depth |-> children_depth,
     indirect_selection |-> indirect_selection, exclude |-> exclude]

\* SelectorDefinitionValue::Full(SelectorExpr::Atom(AtomExpr::MethodKey(map)))
MethodKey(method_value) == [form |-> "MethodKey", method_value |-> method_value]

\* SelectorDefinitionValue::Full(SelectorExpr::Atom(AtomExpr::Exclude(ExcludeAtomExpr { exclude })))
ExcludeAtomExpr(exclude) == [form |-> "Exclude", exclude |-> exclude]

\* SelectorDefinition { name, definition, .. }
SelectorDefinition(name, definition) == [name |-> name, definition |-> definition]

---------------------------------------------------------------------------
(* FsResult<SelectExpression>, together with the warnings the call has     *)
(* emitted through emit_warn_log_message, in the order of emission.        *)

Ok(e, warns) == [ok |-> TRUE, expr |-> e, err |-> "", warns |-> warns]
Err(msg, warns) == [ok |-> FALSE, expr |-> NoExpr, err |-> msg, warns |-> warns]

UnknownSelector == "Unknown selector"
EmptyComposite == "Empty composite expression"
EmptyExcludeList == "Empty exclude list"
MethodKeyPairs == "MethodKey must have exactly one key-value pair"
TopLevelExclude == "Top level exclude not allowed in YAML selectors"
GraphOperatorsIgnored ==
    "Graph operators (parents, children, etc.) are not supported with selector inheritance and will be ignored"

\* the error of the bare-string resolver
InvalidSpecifier == "Invalid model specifier"

\* not an FsResult: the recursion of parse_named through the registry has
\* used up the call stack and the process aborts
StackOverflow == "stack overflow"

\* A u32 is the pair <<high, low>> of its 16-bit halves (TLC's own integers
\* end at 2^31 - 1); no arithmetic is done on depths.
u32(n) == <<n \div 65536, n % 65536>>

\* u32::MAX, the depth of an unbounded parents / children request
U32_MAX == <<65535, 65535>>

---------------------------------------------------------------------------
(* The collaborators of the parser in dbt_common::node_selector.           *)

\* MethodName::from_str: the method named by the head of a dotted method
\* string, or None for a head that names no method
MethodName_from_str(head) ==
    CASE head = <<"tag">> -> Some("Tag")
      [] head = <<"fqn">> -> Some("Fqn")
      [] head = <<"path">> -> Some("Path")
      [] head = <<"resource_type">> -> Some("ResourceType")
      [] head = <<"package">> -> Some("Package")
      [] head = <<"config">> -> Some("Config")
      [] head = <<"state">> -> Some("State")
      [] OTHER -> None

\* MethodName::default_for: the method inferred from the shape of the value
MethodName_default_for(value) ==
    IF contains(value, "/") THEN "Path" ELSE "Fqn"

\* IndirectSelection::default()
IndirectSelection_default == "Eager"

\* parse_model_specifiers(&[s]): "method:value" and plain "value"; a plain
\* value is matched as a fully-qualified name.  Which strings it rejects is
\* outside this subsystem; the model rejects the empty string.
parse_model_specifiers(s) ==
    IF s = <<>> THEN Err(InvalidSpecifier, <<>>)
    ELSE IF contains(s, ":")
    THEN LET i == CHOOSE k \in 1..Len(s) : s[k] = ":" /\ \A j \in 1..(k - 1) : s[j] # ":"
             parts == split(SubSeq(s, 1, i - 1), ".")
             value == SubSeq(s, i + 1, Len(s))
             name == IF MethodName_from_str(parts[1]) # None
                     THEN MethodName_from_str(parts[1])[1]
                     ELSE MethodName_default_for(value)
         IN  Ok(Atom(SelectionCriteria_new(name, Tail(parts), value, FALSE, None, None, None, None)), <<>>)
    ELSE Ok(Atom(SelectionCriteria_new("Fqn", <<>>, s, FALSE, None, None, None, None)), <<>>)

---------------------------------------------------------------------------
(* The parser.  Every operation carries `depth`, the number of nested      *)
(* parse_named calls the call stack still has room for.                    *)

RECURSIVE parse_named(_, _)
RECURSIVE parse_definition(_, _)
RECURSIVE parse_expr(_, _)
RECURSIVE parse_composite(_, _)
RECURSIVE parse_atom(_, _)
RECURSIVE collect_definition_includes(_, _)
RECURSIVE atom_to_select_expression(_, _)
RECURSIVE composite_loop(_, _, _, _, _, _)
RECURSIVE hoist_exclude(_, _, _, _, _, _, _)
RECURSIVE push_include(_, _, _, _, _, _, _)
RECURSIVE collect_from(_, _, _, _)
RECURSIVE collect_step(_, _, _, _, _)

\* parse_named gone wrong: a name the registry lacks selects nothing
parse_named_lenient(name, depth) ==
    IF depth = 0 THEN Err(StackOverflow, <<>>)
    ELSE IF name \notin DOMAIN defs THEN Ok(Or(<<>>), <<>>)
    ELSE parse_definition(defs[name].definition, depth - 1)

\* parse_named gone wrong: the definition found is resolved by its name
\* again instead of being parsed
parse_named_renaming(name, depth) ==
    IF depth = 0 THEN Err(StackOverflow, <<>>)
    ELSE IF name \notin DOMAIN defs THEN Err(UnknownSelector, <<>>)
    ELSE parse_named(defs[name].name, depth - 1)

parse_named(name, depth) ==
    IF depth = 0 THEN Err(StackOverflow, <<>>)
    ELSE IF name \notin DOMAIN defs THEN Err(UnknownSelector, <<>>)
    ELSE parse_definition(defs[name].definition, depth - 1)

parse_definition(def, depth) ==
    IF def.form = "String" THEN parse_model_specifiers(def.s)
    ELSE parse_expr(def, depth)

parse_expr(e, depth) ==
    IF e.form = "Composite" THEN parse_composite(e, depth)
    ELSE parse_atom(e, depth)

\* FsResult<Vec<SelectExpression>>, with the warnings emitted so far
OkList(exprs, warns) == [ok |-> TRUE, err |-> "", exprs |-> exprs, warns |-> warns]
ErrList(msg, warns) == [ok |-> FALSE, err |-> msg, exprs |-> <<>>, warns |-> warns]

\* the collect gone wrong: a failing entry is skipped (filter_map(Result::ok))
collect_step_skipping(list, i, depth, acc, parsed) ==
    IF ~parsed.ok THEN collect_from(list, i + 1, depth, acc)
    ELSE collect_from(list, i + 1, depth, OkList(Append(acc.exprs, parsed.expr), acc.warns \o parsed.warns))

\* one step of the collect: `parsed` is parse_definition of entry i; the first
\* failure ends the collect (later entries are not parsed)
collect_step(list, i, depth, acc, parsed) ==
    IF ~parsed.ok THEN ErrList(parsed.err, acc.warns \o parsed.warns)
    ELSE collect_from(list, i + 1, depth, OkList(Append(acc.exprs, parsed.expr), acc.warns \o parsed.warns))

\* collect_from gone wrong: a standalone exclude block among the entries is
\* turned into an Exclude instead of being handed to parse_definition
collect_from_excluding(list, i, depth, acc) ==
    IF i > Len(list) THEN acc
    ELSE IF list[i].form = "Exclude"
    THEN collect_step(list, i, depth, acc, atom_to_select_expression(list[i], depth))
    ELSE collect_step(list, i, depth, acc, parse_definition(list[i], depth))

\* defs.iter().map(|dv| self.parse_definition(dv)).collect(), from entry i on
collect_from(list, i, depth, acc) ==
    IF i > Len(list) THEN acc
    ELSE collect_step(list, i, depth, acc, parse_definition(list[i], depth))

collect_definition_includes(list, depth) == collect_from(list, 1, depth, OkList(<<>>, <<>>))

\* exclude_expression gone wrong: an empty exclude list excludes nothing
exclude_expression_lenient(exprs) ==
    IF Len(exprs) = 1 THEN Ok(exprs[1], <<>>)
    ELSE Ok(Or(exprs), <<>>)

\* `match exprs.len() { 0 => Err, 1 => the expression, _ => Or(exprs) }` of a
\* standalone exclude block
exclude_expression(exprs) ==
    IF Len(exprs) = 0 THEN Err(EmptyExcludeList, <<>>)
    ELSE IF Len(exprs) = 1 THEN Ok(exprs[1], <<>>)
    ELSE Ok(Or(exprs), <<>>)

\* what the loop of parse_composite has gathered, or its failure
Gathered(includes, exclude_exprs, warns) ==
    [ok |-> TRUE, err |-> "", includes |-> includes, exclude_exprs |-> exclude_exprs, warns |-> warns]
Aborted(msg, warns) ==
    [ok |-> FALSE, err |-> msg, includes |-> <<>>, exclude_exprs |-> <<>>, warns |-> warns]

\* the branch of the loop for a standalone exclude block; `exprs` is
\* collect_definition_includes of its list
hoist_exclude(values, i, includes, exclude_exprs, warns, depth, exprs) ==
    IF ~exprs.ok THEN Aborted(exprs.err, warns \o exprs.warns)
    ELSE LET exclude_expr == exclude_expression(exprs.exprs)
         IN  IF ~exclude_expr.ok THEN Aborted(exclude_expr.err, warns \o exprs.warns)
             ELSE composite_loop(values, i + 1, includes, Append(exclude_exprs, exclude_expr.expr),
                                 warns \o exprs.warns, depth)

\* the branch of the loop for an include; `resolved` is parse_definition of it
push_include(values, i, includes, exclude_exprs, warns, depth, resolved) ==
    IF ~resolved.ok THEN Aborted(resolved.err, warns \o resolved.warns)
    ELSE composite_loop(values, i + 1, Append(includes, resolved.expr), exclude_exprs,
                        warns \o resolved.warns, depth)

\* the loop `for value in values` of parse_composite, from entry i on
composite_loop(values, i, includes, exclude_exprs, warns, depth) ==
    IF i > Len(values) THEN Gathered(includes, exclude_exprs, warns)
    ELSE IF values[i].form = "Exclude"
    THEN hoist_exclude(values, i, includes, exclude_exprs, warns, depth,
                       collect_definition_includes(values[i].exclude, depth))
    ELSE push_include(values, i, includes, exclude_exprs, warns, depth,
                      parse_definition(values[i], depth))

\* include_expression gone wrong: a single include is returned without its
\* Or / And wrapper
include_expression_unwrapping(variant, includes) ==
    IF Len(includes) = 1 THEN includes[1]
    ELSE IF variant = "Union" THEN Or(includes) ELSE And(includes)

\* `let include_expr = match op_kind { Union => Or, Intersection => And }`
include_expression(variant, includes) ==
    IF variant = "Union" THEN Or(includes) ELSE And(includes)

\* combine_excludes gone wrong: the excludes are attached with the
\* composite's own operator
combine_excludes_by_operator(include_expr, exclude_exprs) ==
    IF exclude_exprs # <<>>
    THEN LET combined_exclude == IF Len(exclude_exprs) = 1 THEN exclude_exprs[1] ELSE Or(exclude_exprs)
         IN  IF include_expr.tag = "Or"
             THEN Or(<<include_expr, Exclude(combined_exclude)>>)
             ELSE And(<<include_expr, Exclude(combined_exclude)>>)
    ELSE include_expr

\* combine_excludes gone wrong: several excludes are intersected
combine_excludes_intersecting(include_expr, exclude_exprs) ==
    IF exclude_exprs # <<>>
    THEN LET combined_exclude == IF Len(exclude_exprs) = 1 THEN exclude_exprs[1] ELSE And(exclude_exprs)
         IN  And(<<include_expr, Exclude(combined_exclude)>>)
    ELSE include_expr

\* combine_excludes gone wrong: the Exclude is appended to the operands of
\* an intersection instead of being paired with it
combine_excludes_appending(include_expr, exclude_exprs) ==
    IF exclude_exprs # <<>>
    THEN LET combined_exclude == IF Len(exclude_exprs) = 1 THEN exclude_exprs[1] ELSE Or(exclude_exprs)
         IN  IF include_expr.tag = "And"
             THEN And(Append(include_expr.exprs, Exclude(combined_exclude)))
             ELSE And(<<include_expr, Exclude(combined_exclude)>>)
    ELSE include_expr

\* combine_excludes gone wrong: without includes the Exclude stands alone
combine_excludes_bare(include_expr, exclude_exprs) ==
    IF exclude_exprs # <<>>
    THEN LET combined_exclude == IF Len(exclude_exprs) = 1 THEN exclude_exprs[1] ELSE Or(exclude_exprs)
         IN  IF include_expr.exprs = <<>>
             THEN Exclude(combined_exclude)
             ELSE And(<<include_expr, Exclude(combined_exclude)>>)
    ELSE include_expr

\* `if !exclude_exprs.is_empty() { .. }` of parse_composite: the includes
\* narrowed by the hoisted excludes
combine_excludes(include_expr, exclude_exprs) ==
    IF exclude_exprs # <<>>
    THEN LET combined_exclude == IF Len(exclude_exprs) = 1 THEN exclude_exprs[1] ELSE Or(exclude_exprs)
         IN  And(<<include_expr, Exclude(combined_exclude)>>)
    ELSE include_expr

\* the end of parse_composite; `loop` is what its loop returned
composite_result(op_kind, loop) ==
    IF ~loop.ok THEN Err(loop.err, loop.warns)
    ELSE Ok(combine_excludes(include_expression(op_kind, loop.includes), loop.exclude_exprs), loop.warns)

\* parse_composite gone wrong: an empty operator map is an empty union
parse_composite_defaulting(comp, depth) ==
    IF comp.kind = <<>> THEN Ok(Or(<<>>), <<>>)
    ELSE composite_result(comp.kind[1].variant,
                          composite_loop(comp.kind[1].values, 1, <<>>, <<>>, <<>>, depth))

parse_composite(comp, depth) ==
    IF comp.kind = <<>> THEN Err(EmptyComposite, <<>>)
    ELSE composite_result(comp.kind[1].variant,
                          composite_loop(comp.kind[1].values, 1, <<>>, <<>>, <<>>, depth))

\* the graph operators of a method atom that selector inheritance ignores
has_graph_operators(e) ==
    \/ e.childrens_parents
    \/ e.parents
    \/ e.children
    \/ e.parents_depth # None
    \/ e.children_depth # None

\* inherit_selector gone wrong: the graph operators of the referencing atom
\* are applied to an inherited atom
inherit_selector_applying(atom, referenced_selector) ==
    IF ~referenced_selector.ok THEN referenced_selector
    ELSE IF has_graph_operators(atom) /\ referenced_selector.expr.tag = "Atom"
    THEN LET c == referenced_selector.expr.criteria
         IN  Ok(Atom([c EXCEPT !.childrens_parents = atom.childrens_parents,
                               !.parents_depth = IF atom.parents /\ atom.parents_depth = None
                                                 THEN <<<<65535, 65535>>>> ELSE atom.parents_depth,
                               !.children_depth = IF atom.children /\ atom.children_depth = None
                                                  THEN <<<<65535, 65535>>>> ELSE atom.children_depth]),
                referenced_selector.warns)
    ELSE referenced_selector

\* inherit_selector gone wrong: the warning is emitted before the lookup
inherit_selector_warning_first(atom, referenced_selector) ==
    IF ~has_graph_operators(atom) THEN referenced_selector
    ELSE IF referenced_selector.ok
    THEN Ok(referenced_selector.expr, <<GraphOperatorsIgnored>> \o referenced_selector.warns)
    ELSE Err(referenced_selector.err, <<GraphOperatorsIgnored>> \o referenced_selector.warns)

\* the branch `expr.method == "selector"` of parse_atom after the lookup;
\* `referenced_selector` is parse_named of the value
inherit_selector(atom, referenced_selector) ==
    IF ~referenced_selector.ok THEN referenced_selector
    ELSE IF has_graph_operators(atom)
    THEN Ok(referenced_selector.expr, Append(referenced_selector.warns, GraphOperatorsIgnored))
    ELSE referenced_selector

\* parse_atom gone wrong: the shorthand leaves the indirect mode unset
parse_atom_unset_indirect(atom, depth) ==
    CASE atom.form = "Method" ->
            IF atom.method = <<"selector">>
            THEN inherit_selector(atom, parse_named(atom.value, depth))
            ELSE atom_to_select_expression(
                     MethodAtomExpr(atom.method, atom.value, atom.childrens_parents, atom.parents, atom.children,
                                    atom.parents_depth, atom.children_depth, atom.indirect_selection, atom.exclude),
                     depth)
      [] atom.form = "MethodKey" ->
            IF Len(atom.method_value) # 1 THEN Err(MethodKeyPairs, <<>>)
            ELSE atom_to_select_expression(
                     MethodAtomExpr(atom.method_value[1][1], atom.method_value[1][2], FALSE, FALSE, FALSE,
                                    None, None, None, None),
                     depth)
      [] atom.form = "Exclude" -> Err(TopLevelExclude, <<>>)

\* parse_atom gone wrong: a top-level exclude block becomes an Exclude
parse_atom_excluding(atom, depth) ==
    CASE atom.form = "Method" ->
            IF atom.method = <<"selector">>
            THEN inherit_selector(atom, parse_named(atom.value, depth))
            ELSE atom_to_select_expression(
                     MethodAtomExpr(atom.method, atom.value, atom.childrens_parents, atom.parents, atom.children,
                                    atom.parents_depth, atom.children_depth, atom.indirect_selection, atom.exclude),
                     depth)
      [] atom.form = "MethodKey" ->
            IF Len(atom.method_value) # 1 THEN Err(MethodKeyPairs, <<>>)
            ELSE atom_to_select_expression(
                     MethodAtomExpr(atom.method_value[1][1], atom.method_value[1][2], FALSE, FALSE, FALSE,
                                    None, None, Some(IndirectSelection_default), None),
                     depth)
      [] atom.form = "Exclude" -> atom_to_select_expression(atom, depth)

\* parse_atom gone wrong: of several pairs of a shorthand the first is taken
parse_atom_first_pair(atom, depth) ==
    CASE atom.form = "Method" ->
            IF atom.method = <<"selector">>
            THEN inherit_selector(atom, parse_named(atom.value, depth))
            ELSE atom_to_select_expression(
                     MethodAtomExpr(atom.method, atom.value, atom.childrens_parents, atom.parents, atom.children,
                                    atom.parents_depth, atom.children_depth, atom.indirect_selection, atom.exclude),
                     depth)
      [] atom.form = "MethodKey" ->
            IF Len(atom.method_value) = 0 THEN Err(MethodKeyPairs, <<>>)
            ELSE atom_to_select_expression(
                     MethodAtomExpr(atom.method_value[1][1], atom.method_value[1][2], FALSE, FALSE, FALSE,
                                    None, None, Some(IndirectSelection_default), None),
                     depth)
      [] atom.form = "Exclude" -> Err(TopLevelExclude, <<>>)

parse_atom(atom, depth) ==
    CASE atom.form = "Method" ->
            IF atom.method = <<"selector">>
            THEN inherit_selector(atom, parse_named(atom.value, depth))
            ELSE atom_to_select_expression(
                     MethodAtomExpr(atom.method, atom.value, atom.childrens_parents, atom.parents, atom.children,
                                    atom.parents_depth, atom.children_depth, atom.indirect_selection, atom.exclude),
                     depth)
      [] atom.form = "MethodKey" ->
            IF Len(atom.method_value) # 1 THEN Err(MethodKeyPairs, <<>>)
            ELSE atom_to_select_expression(
                     MethodAtomExpr(atom.method_value[1][1], atom.method_value[1][2], FALSE, FALSE, FALSE,
                                    None, None, Some(IndirectSelection_default), None),
                     depth)
      [] atom.form = "Exclude" -> Err(TopLevelExclude, <<>>)

\* `let (name, args) = { .. }`: the method of the head of the dotted method
\* string (or the default for the value) and the rest as arguments
resolve_method(method, value) ==
    LET parts == split(method, ".")
        nm == IF MethodName_from_str(parts[1]) # None
              THEN MethodName_from_str(parts[1])[1]
              ELSE MethodName_default_for(value)
    IN  [name |-> nm, args |-> Tail(parts)]

\* normalise_depth gone wrong: the flag overrides an explicit depth
normalise_depth_overriding(flag, depth_opt) ==
    IF flag THEN Some(U32_MAX) ELSE depth_opt

\* `if parents && parents_depth.is_none() { Some(u32::MAX) } else { parents_depth }`
normalise_depth(flag, depth_opt) ==
    IF flag /\ depth_opt = None THEN Some(U32_MAX) ELSE depth_opt

\* nested_exclude gone wrong: several entries are intersected
nested_exclude_intersecting(exprs) ==
    IF Len(exprs) = 0 THEN None
    ELSE IF Len(exprs) = 1 THEN Some(exprs[1])
    ELSE Some(And(exprs))

\* nested_exclude gone wrong: the arm for an empty list is missing
nested_exclude_wrapping(exprs) ==
    IF Len(exprs) = 1 THEN Some(exprs[1])
    ELSE Some(Or(exprs))

\* `match exprs.len() { 0 => None, 1 => Some(the expression), _ => Some(Or(exprs)) }`
\* of the exclude list of a method atom
nested_exclude(exprs) ==
    IF Len(exprs) = 0 THEN None
    ELSE IF Len(exprs) = 1 THEN Some(exprs[1])
    ELSE Some(Or(exprs))

\* method_criteria gone wrong: an empty exclude list is an error, as it is
\* for a standalone exclude block
method_criteria_strict(atom, exprs) ==
    IF ~exprs.ok THEN Err(exprs.err, exprs.warns)
    ELSE IF atom.exclude # None /\ exprs.exprs = <<>> THEN Err(EmptyExcludeList, exprs.warns)
    ELSE LET m == resolve_method(atom.method, atom.value)
             pd == normalise_depth(atom.parents, atom.parents_depth)
             cd == normalise_depth(atom.children, atom.children_depth)
         IN  Ok(Atom(SelectionCriteria_new(m.name, m.args, atom.value, atom.childrens_parents,
                                           pd, cd, atom.indirect_selection, nested_exclude(exprs.exprs))),
                exprs.warns)

\* steps 1, 2 and 4 of the Method branch of atom_to_select_expression;
\* `exprs` is the parsed exclude list (empty when the atom has none)
method_criteria(atom, exprs) ==
    IF ~exprs.ok THEN Err(exprs.err, exprs.warns)
    ELSE LET m == resolve_method(atom.method, atom.value)
             pd == normalise_depth(atom.parents, atom.parents_depth)
             cd == normalise_depth(atom.children, atom.children_depth)
         IN  Ok(Atom(SelectionCriteria_new(m.name, m.args, atom.value, atom.childrens_parents,
                                           pd, cd, atom.indirect_selection, nested_exclude(exprs.exprs))),
                exprs.warns)

\* the Exclude branch of atom_to_select_expression; `exprs` is
\* collect_definition_includes of its list
standalone_exclude(exprs) ==
    IF ~exprs.ok THEN Err(exprs.err, exprs.warns)
    ELSE LET exclude_expr == exclude_expression(exprs.exprs)
         IN  IF ~exclude_expr.ok THEN Err(exclude_expr.err, exprs.warns)
             ELSE Ok(Exclude(exclude_expr.expr), exprs.warns)

atom_to_select_expression(atom, depth) ==
    CASE atom.form = "Method" ->
            method_criteria(atom,
                            IF atom.exclude # None
                            THEN collect_from(atom.exclude[1], 1, depth, OkList(<<>>, <<>>))
                            ELSE OkList(<<>>, <<>>))
      [] atom.form = "MethodKey" ->
            LET m == resolve_method(atom.method_value[1][1], atom.method_value[1][2])
            IN  Ok(Atom(SelectionCriteria_new(m.name, m.args, atom.method_value[1][2], FALSE, None, None,
                                              Some(IndirectSelection_default), None)),
                   <<>>)
      [] atom.form = "Exclude" ->
            standalone_exclude(collect_definition_includes(atom.exclude, depth))

---------------------------------------------------------------------------
(* Inputs of the parser: registries and surface definitions.               *)

sTagProduction == <<"tag", ":", "production">>
sTagDeprecated == <<"tag", ":", "deprecated">>
sPathTypo == <<"path", ":", "models", "/", "test_exclude", "/", "bronse", "/", "no_such_", "*">>
sBronze1 == <<"test", ".", "bronze_1">>
sEmpty == <<>>

\* a method atom without graph operators, indirect mode or exclude list
method_atom(method, value) ==
    MethodAtomExpr(method, value, FALSE, FALSE, FALSE, None, None, None, None)

\* the same with an exclude list
method_atom_excluding(method, value, exclude) ==
    MethodAtomExpr(method, value, FALSE, FALSE, FALSE, None, None, None, Some(exclude))

\* the helper `exclude` of the tests, over definitions
exclude(vals) == ExcludeAtomExpr(vals)

\* the registry of the tests of selector inheritance, with two further
\* levels of references, a reference to an unregistered name and cycles
TestRegistry ==
    LET entries ==
          { SelectorDefinition(<<"foo_and_bar">>,
                composite("intersection", <<String(sTagProduction), String(sTagDeprecated)>>)),
            SelectorDefinition(<<"base_with_exclude">>,
                method_atom_excluding(<<"tag">>, <<"production">>, <<String(sBronze1)>>)),
            SelectorDefinition(<<"nightly_models">>, String(sTagDeprecated)),
            SelectorDefinition(<<"level_one">>,
                MethodAtomExpr(<<"selector">>, <<"foo_and_bar">>, FALSE, TRUE, FALSE, None, None, None, None)),
            SelectorDefinition(<<"level_two">>, method_atom(<<"selector">>, <<"level_one">>)),
            SelectorDefinition(<<"no_includes">>,
                composite("intersection", <<exclude(<<String(sBronze1)>>)>>)),
            SelectorDefinition(<<"broken">>, method_atom(<<"selector">>, <<"missing">>)),
            SelectorDefinition(<<"loop">>, method_atom(<<"selector">>, <<"loop">>)),
            SelectorDefinition(<<"ping">>, method_atom(<<"selector">>, <<"pong">>)),
            SelectorDefinition(<<"pong">>, method_atom(<<"selector">>, <<"ping">>)) }
    IN  [n \in { e.name : e \in entries } |-> CHOOSE e \in entries : e.name = n]

EmptyRegistry == [n \in {} |-> SelectorDefinition(n, String(sEmpty))]

\* the same registry without the selectors that refer to themselves
AcyclicRegistry ==
    [n \in DOMAIN TestRegistry \ {<<"loop">>, <<"ping">>, <<"pong">>} |-> TestRegistry[n]]

Registries == {AcyclicRegistry, TestRegistry}

\* the names looked up: the registered ones and one that is not
SelectorNames == DOMAIN TestRegistry \cup {<<"missing">>}

\* a call of parse_named
Named(name) == [form |-> "Named", name |-> name]

BareStrings == { String(s) : s \in {sTagProduction, sTagDeprecated, sPathTypo, sBronze1, sEmpty} }

\* exclude lists attached to an atom: absent, empty, one or two entries, and
\* entries that fail to parse
AtomExcludeLists ==
    { None,
      Some(<<>>),
      Some(<<String(sTagDeprecated)>>),
      Some(<<String(sTagDeprecated), String(sBronze1)>>),
      Some(<<exclude(<<String(sTagDeprecated)>>)>>),
      Some(<<String(sBronze1), method_atom(<<"selector">>, <<"missing">>)>>),
      Some(<<method_atom(<<"selector">>, <<"level_one">>)>>) }

\* the graph operators and indirect mode of a method atom:
\* <<childrens_parents, parents, children, parents_depth, children_depth, indirect_selection>>
GraphOperators ==
    { <<FALSE, FALSE, FALSE, None, None, None>>,
      <<TRUE, TRUE, TRUE, Some(u32(2)), Some(u32(3)), Some("Cautious")>>,
      <<FALSE, TRUE, FALSE, None, Some(u32(1)), Some("Eager")>>,
      <<FALSE, FALSE, TRUE, None, None, None>>,
      <<TRUE, FALSE, FALSE, None, None, Some("Buildable")>>,
      <<FALSE, FALSE, FALSE, Some(u32(0)), Some(U32_MAX), None>> }

MethodAtoms ==
    { MethodAtomExpr(mv[1], mv[2], g[1], g[2], g[3], g[4], g[5], g[6], x) :
        mv \in { << <<"tag">>, <<"production">> >>,
                 << <<"config", ".", "materialized">>, <<"table">> >>,
                 << <<"nightly_thing">>, BronzeDir \o <<"*">> >> },
        g \in GraphOperators, x \in AtomExcludeLists }

SelectorAtoms ==
    { MethodAtomExpr(<<"selector">>, n, g[1], g[2], g[3], g[4], g[5], g[6], x) :
        n \in SelectorNames, g \in GraphOperators, x \in AtomExcludeLists }

MethodKeys ==
    { MethodKey(<<>>),
      MethodKey(<< << <<"tag">>, <<"production">> >> >>),
      MethodKey(<< << <<"config", ".", "materialized">>, <<"table">> >> >>),
      MethodKey(<< << <<"selector">>, <<"foo_and_bar">> >> >>),
      MethodKey(<< << <<"path">>, BronzeDir >>, << <<"tag">>, <<"production">> >> >>) }

\* the sub-definitions of the small composites and of the exclude blocks
UnionExcluding == composite("union", <<String(sTagProduction), exclude(<<String(sTagDeprecated)>>)>>)

PairEntries ==
    BareStrings \cup MethodKeys \cup
    { method_atom(<<"tag">>, <<"production">>),
      method_atom_excluding(<<"tag">>, <<"production">>, <<String(sBronze1)>>),
      method_atom_excluding(<<"tag">>, <<"production">>, <<exclude(<<String(sBronze1)>>)>>),
      method_atom(<<"selector">>, <<"foo_and_bar">>),
      method_atom(<<"selector">>, <<"level_two">>),
      method_atom(<<"selector">>, <<"missing">>),
      MethodAtomExpr(<<"selector">>, <<"base_with_exclude">>, FALSE, FALSE, TRUE, None, None, None,
                     Some(<<String(sTagDeprecated)>>)),
      method_atom_excluding(<<"selector">>, <<"foo_and_bar">>, <<exclude(<<String(sBronze1)>>)>>),
      exclude(<<>>),
      exclude(<<String(sTagDeprecated)>>),
      exclude(<<String(sPathTypo)>>),
      exclude(<<String(sTagDeprecated), String(sBronze1)>>),
      exclude(<<exclude(<<String(sTagDeprecated)>>)>>),
      exclude(<<UnionExcluding>>),
      exclude(<<method_atom(<<"selector">>, <<"missing">>)>>),
      UnionExcluding,
      composite("intersection", <<String(sTagProduction), String(sBronze1)>>),
      composite("union", <<exclude(<<String(sTagDeprecated)>>)>>),
      Composite(<<>>) }

ExcludeBlocks ==
    { exclude(<<>>) } \cup { exclude(<<a>>) : a \in PairEntries } \cup
    { exclude(<<a, b>>) : a \in BareStrings, b \in PairEntries }

\* operator maps: no entry, one entry, and both keys ("intersection" sorts
\* before "union")
OperatorMaps(items) ==
    { <<>>,
      <<KindEntry(<<"union">>, "Union", items)>>,
      <<KindEntry(<<"intersection">>, "Intersection", items)>>,
      <<KindEntry(<<"intersection">>, "Intersection", items), KindEntry(<<"union">>, "Union", <<String(sBronze1)>>)>> }

PairComposites ==
    { Composite(m) :
        m \in UNION { OperatorMaps(items) :
                        items \in {<<>>} \cup { <<a>> : a \in PairEntries }
                                         \cup { <<a, b>> : a \in PairEntries, b \in PairEntries } } }

\* the sub-definitions of the longer composite lists
ListEntries ==
    { String(sTagProduction),
      method_atom_excluding(<<"tag">>, <<"production">>, <<String(sBronze1), String(sTagDeprecated)>>),
      MethodAtomExpr(<<"selector">>, <<"nightly_models">>, FALSE, TRUE, FALSE, None, None, None, None),
      exclude(<<String(sTagDeprecated)>>),
      exclude(<<String(sBronze1), String(sPathTypo)>>),
      MethodKey(<<>>) }

ListComposites ==
    { composite(k, items) : k \in {"union", "intersection"}, items \in SeqsUpTo(ListEntries, MaxItems) }

\* the composites of test_union_of_intersections_with_exclude and
\* test_deeply_nested_excludes
NestedComposites ==
    { composite("union",
          << composite("intersection",
                 << String(sTagProduction),
                    composite("union", <<String(sTagDeprecated), String(sBronze1), exclude(<<String(sTagDeprecated)>>)>>) >>),
             composite("intersection", <<String(sTagProduction), String(sTagDeprecated)>>) >>),
      composite("intersection", <<UnionExcluding, composite("union", <<String(sBronze1), exclude(<<String(sPathTypo)>>)>>)>>),
      composite("union", <<exclude(<<UnionExcluding>>)>>) }

SurfaceDefinitions ==
    BareStrings \cup MethodAtoms \cup SelectorAtoms \cup MethodKeys \cup ExcludeBlocks \cup
    PairComposites \cup ListComposites \cup NestedComposites

SurfaceInputs == SurfaceDefinitions \cup { Named(n) : n \in SelectorNames }

\* the node collections the parsed expressions are evaluated against
ParserNodeCollections == { create_test_nodes, Tail(create_test_nodes) }

---------------------------------------------------------------------------
(* Values of the parser's variables while only the evaluator runs.         *)

NoDef == [form |-> "NoDef"]
NoOutcome == [ok |-> FALSE, expr |-> NoExpr, err |-> "not parsed", warns |-> <<>>]

---------------------------------------------------------------------------
(* The evaluator applied to a directly built expression.                   *)

Init ==
    /\ all_nodes \in NodeCollections
    /\ expr \in Exprs
    /\ defs = EmptyRegistry
    /\ surface = NoDef
    /\ call = "none"
    /\ outcome = NoOutcome
    /\ warnings = <<>>
    /\ result = {}
    /\ effective_mode = None
    /\ pc = "built"

\* evaluate_select_expression(&expr, &all_nodes)
Evaluate ==
    /\ pc = "built"
    /\ result' = evaluate_select_expression(expr, all_nodes)
    /\ pc' = "evaluated"
    /\ UNCHANGED <<all_nodes, defs, surface, call, outcome, warnings, expr, effective_mode>>

\* evaluate_and_buggy(&exprs, &all_nodes) on the operands of an And
EvaluateAndBuggy ==
    /\ pc = "built"
    /\ expr.tag = "And"
    /\ result' = evaluate_and_buggy(expr.exprs, all_nodes)
    /\ pc' = "evaluated_buggy"
    /\ UNCHANGED <<all_nodes, defs, surface, call, outcome, warnings, expr, effective_mode>>

Next == Evaluate \/ EvaluateAndBuggy

Spec == Init /\ [][Next]_vars

---------------------------------------------------------------------------
(* The parser applied to a surface definition, and the evaluator applied   *)
(* to the expression it returns.                                           *)

InitParse ==
    /\ all_nodes \in ParserNodeCollections
    /\ defs \in Registries
    /\ surface \in SurfaceInputs
    /\ call = "none"
    /\ outcome = NoOutcome
    /\ warnings = <<>>
    /\ expr = NoExpr
    /\ result = {}
    /\ effective_mode = None
    /\ pc = "input"

\* what a parser call leaves behind: its result, the warnings it emitted and,
\* on success, the expression
Returned(name, r) ==
    /\ call' = name
    /\ outcome' = r
    /\ warnings' = warnings \o r.warns
    /\ expr' = r.expr
    /\ pc' = IF r.ok THEN "built" ELSE "failed"
    /\ UNCHANGED <<all_nodes, defs, surface, result, effective_mode>>

ParseNamed ==
    /\ pc = "input"
    /\ surface.form = "Named"
    /\ Returned("parse_named", parse_named(surface.name, MaxDepth))

ParseDefinition ==
    /\ pc = "input"
    /\ surface.form # "Named"
    /\ Returned("parse_definition", parse_definition(surface, MaxDepth))

ParseExpr ==
    /\ pc = "input"
    /\ surface.form \in {"Composite", "Method", "MethodKey", "Exclude"}
    /\ Returned("parse_expr", parse_expr(surface, MaxDepth))

ParseComposite ==
    /\ pc = "input"
    /\ surface.form = "Composite"
    /\ Returned("parse_composite", parse_composite(surface, MaxDepth))

ParseAtom ==
    /\ pc = "input"
    /\ surface.form \in {"Method", "MethodKey", "Exclude"}
    /\ Returned("parse_atom", parse_atom(surface, MaxDepth))

\* result.set_indirect_selection(mode) on the expression a parse returned,
\* once or again
SetIndirectSelection ==
    /\ pc \in {"built", "stamped"}
    /\ \E selection \in Modes :
          /\ expr' = set_indirect_selection(expr, selection)
          /\ effective_mode' = Some(selection)
    /\ pc' = "stamped"
    /\ UNCHANGED <<all_nodes, defs, surface, call, outcome, warnings, result>>

NextParse ==
    \/ ParseNamed
    \/ ParseDefinition
    \/ ParseExpr
    \/ ParseComposite
    \/ ParseAtom
    \/ SetIndirectSelection
    \/ Evaluate

SpecParse == InitParse /\ [][NextParse]_vars

---------------------------------------------------------------------------
(* Properties of the evaluator, checked under Spec.                        *)

\* the match set of an expression over the node collection of the state
Matches(e) == evaluate_select_expression(e, all_nodes)

AllIds == { all_nodes[i].unique_id : i \in 1..Len(all_nodes) }

IsAnd == pc = "evaluated" /\ expr.tag = "And"

\* C1: when Y matches no node, evaluating And([X, Exclude(Y)]) returns exactly
\* the match set of X: an exclude that matches nothing removes nothing.
C1_ExcludeMatchesNothing ==
    ( /\ IsAnd
      /\ Len(expr.exprs) = 2
      /\ expr.exprs[2].tag = "Exclude"
      /\ Matches(expr.exprs[2].inner) = {} )
    => result = Matches(expr.exprs[1])

\* C1 happens: an And([X, Exclude(Y)]) with Y matching nothing and X matching
\* some node has been evaluated.
C1_Witness ==
    /\ IsAnd
    /\ Len(expr.exprs) = 2
    /\ expr.exprs[2].tag = "Exclude"
    /\ Matches(expr.exprs[2].inner) = {}
    /\ Matches(expr.exprs[1]) # {}
    /\ result # {}

\* C2 as stated: an Exclude(Y) that is a direct operand of an And, at any
\* operand position including the first, acts as a removal set: no node
\* matched by Y is in the result of the And.
C2_ExcludeOperandRemovesAtAnyPosition ==
    IsAnd =>
        \A i \in 1..Len(expr.exprs) :
            expr.exprs[i].tag = "Exclude" => result \cap Matches(expr.exprs[i].inner) = {}

\* C2 amended: an Exclude(Y) that is a direct operand of an And at any
\* operand position after the first acts as a removal set: no node matched
\* by Y is in the result of the And.
C2_ExcludeOperandRemovesAfterFirst ==
    IsAnd =>
        \A i \in 2..Len(expr.exprs) :
            expr.exprs[i].tag = "Exclude" => result \cap Matches(expr.exprs[i].inner) = {}

\* C2 happens: an And has been evaluated with an Exclude operand after the
\* first, in third position, whose inner expression matches a node that
\* every other operand lets through, and a node remains.
C2_Witness ==
    /\ IsAnd
    /\ Len(expr.exprs) = 3
    /\ expr.exprs[2].tag # "Exclude"
    /\ expr.exprs[3].tag = "Exclude"
    /\ Matches(expr.exprs[1]) \cap Matches(expr.exprs[2]) \cap Matches(expr.exprs[3].inner) # {}
    /\ result # {}

\* C3: for an And whose first operand is not an Exclude, the result is the
\* intersection of the match sets of its non-Exclude operands minus the union
\* of the match sets of its Exclude operands.
C3_AndIsIntersectionMinusExcludes ==
    ( /\ IsAnd
      /\ expr.exprs # <<>>
      /\ expr.exprs[1].tag # "Exclude" )
    => result = { id \in AllIds :
                    /\ \A i \in 1..Len(expr.exprs) :
                          expr.exprs[i].tag # "Exclude" => id \in Matches(expr.exprs[i])
                    /\ \A i \in 1..Len(expr.exprs) :
                          expr.exprs[i].tag = "Exclude" => id \notin Matches(expr.exprs[i].inner) }

\* C3 happens: an And with an Exclude operand between two other operands has
\* been evaluated, the Exclude removed a node the first operand matched, the
\* last operand narrowed what was left, and a node remains.
C3_Witness ==
    /\ IsAnd
    /\ Len(expr.exprs) = 3
    /\ expr.exprs[1].tag # "Exclude"
    /\ expr.exprs[2].tag = "Exclude"
    /\ expr.exprs[3].tag # "Exclude"
    /\ Matches(expr.exprs[1]) \cap Matches(expr.exprs[2].inner) # {}
    /\ ~(Matches(expr.exprs[1]) \ Matches(expr.exprs[2].inner) \subseteq Matches(expr.exprs[3]))
    /\ result # {}

\* C4: when Y matches every node that X matches, evaluating
\* And([X, Exclude(Y)]) returns the empty set.
C4_ExcludeMatchesEverything ==
    ( /\ IsAnd
      /\ Len(expr.exprs) = 2
      /\ expr.exprs[2].tag = "Exclude"
      /\ Matches(expr.exprs[1]) \subseteq Matches(expr.exprs[2].inner) )
    => result = {}

\* C4 happens: an And([X, Exclude(Y)]) where X matches some node and Y
\* matches all of them has been evaluated.
C4_Witness ==
    /\ IsAnd
    /\ Len(expr.exprs) = 2
    /\ expr.exprs[2].tag = "Exclude"
    /\ Matches(expr.exprs[1]) # {}
    /\ Matches(expr.exprs[1]) \subseteq Matches(expr.exprs[2].inner)
    /\ result = {}

\* the set an operand of an Or stands for when an Exclude is read as the raw
\* match set of its inner expression
RawMatches(e) == IF e.tag = "Exclude" THEN Matches(e.inner) ELSE Matches(e)

\* C5: outside the operand list of an And an Exclude is no complement:
\* evaluating Exclude(X) as the whole expression returns the match set of X,
\* and an Or adds the match set of the inner expression of each Exclude
\* operand to the union, so Or([A, Exclude(B)]) is matches(A) with matches(B).
C5_ExcludeOutsideAndIsMatchSet ==
    pc = "evaluated" =>
        /\ expr.tag = "Exclude" => result = Matches(expr.inner)
        /\ expr.tag = "Or" =>
              result = UNION { RawMatches(expr.exprs[i]) : i \in 1..Len(expr.exprs) }

\* C5 happens: an Or([A, Exclude(B)]) has been evaluated where B matches a
\* node that A does not, and B does not match every node.
C5_Witness ==
    /\ pc = "evaluated"
    /\ expr.tag = "Or"
    /\ Len(expr.exprs) = 2
    /\ expr.exprs[2].tag = "Exclude"
    /\ ~(Matches(expr.exprs[2].inner) \subseteq Matches(expr.exprs[1]))
    /\ Matches(expr.exprs[2].inner) # AllIds
    /\ Matches(expr.exprs[2].inner) \subseteq result

\* what an atom contributes: its direct matches minus the match set of its
\* nested exclude
AtomContribution(c) ==
    direct_matches(c, all_nodes) \ (IF c.exclude = None THEN {} ELSE Matches(c.exclude[1]))

\* an operand read with every atom (bare or under an Exclude) replaced by its
\* contribution
Contribution(e) ==
    IF e.tag = "Atom" THEN AtomContribution(e.criteria)
    ELSE IF e.tag = "Exclude" /\ e.inner.tag = "Atom" THEN AtomContribution(e.inner.criteria)
    ELSE Matches(e)

\* C8: an atom with a nested exclude E contributes its direct matches minus
\* the match set of E wherever it stands: as the whole expression, under an
\* Exclude, as an operand of an Or, and as an operand of an And.
C8_NestedExcludeIndependence ==
    pc = "evaluated" =>
        /\ expr.tag = "Atom" => result = AtomContribution(expr.criteria)
        /\ (expr.tag = "Exclude" /\ expr.inner.tag = "Atom") =>
              result = AtomContribution(expr.inner.criteria)
        /\ expr.tag = "Or" =>
              result = UNION { Contribution(expr.exprs[i]) : i \in 1..Len(expr.exprs) }
        /\ (expr.tag = "And" /\ expr.exprs # <<>>) =>
              result = { id \in Contribution(expr.exprs[1]) :
                            \A i \in 2..Len(expr.exprs) :
                                IF expr.exprs[i].tag = "Exclude"
                                THEN id \notin Contribution(expr.exprs[i])
                                ELSE id \in Contribution(expr.exprs[i]) }

\* C8 happens: an And has been evaluated with, after its first operand, an
\* atom whose nested exclude removes one of the atom's direct matches that
\* the first operand matched too, and a node remains.
C8_Witness ==
    /\ IsAnd
    /\ result # {}
    /\ \E i \in 2..Len(expr.exprs) :
          /\ expr.exprs[i].tag = "Atom"
          /\ expr.exprs[i].criteria.exclude # None
          /\ \E id \in Matches(expr.exprs[1]) :
                /\ id \in direct_matches(expr.exprs[i].criteria, all_nodes)
                /\ id \in Matches(expr.exprs[i].criteria.exclude[1])
                /\ id \notin result

---------------------------------------------------------------------------
(* Properties of the parser, checked under SpecParse.                      *)

Parsed == pc \in {"built", "evaluated"}

Rejected == pc = "failed"

\* a definition that is neither a composite nor a standalone exclude block
IsAtomDefinition(d) == d.form \in {"String", "Method", "MethodKey"}

\* the values of the operator a composite is parsed by
OperatorValues(d) == d.kind[1].values

\* the expression a sub-definition parses to on its own
ParsedAlone(d) == parse_definition(d, MaxDepth)

\* C6: a union composite [A, exclude: [B]] of two atoms evaluates to the
\* match set of A minus the match set of B over the node collection.
C6_UnionExcludeComposition ==
    ( /\ pc = "evaluated"
      /\ surface.form = "Composite"
      /\ surface.kind # <<>>
      /\ surface.kind[1].variant = "Union"
      /\ Len(OperatorValues(surface)) = 2
      /\ IsAtomDefinition(OperatorValues(surface)[1])
      /\ OperatorValues(surface)[2].form = "Exclude"
      /\ Len(OperatorValues(surface)[2].exclude) = 1
      /\ IsAtomDefinition(OperatorValues(surface)[2].exclude[1]) )
    => result = Matches(ParsedAlone(OperatorValues(surface)[1]).expr)
                   \ Matches(ParsedAlone(OperatorValues(surface)[2].exclude[1]).expr)

\* C6 happens: a union [A, exclude: [B]] has been parsed and evaluated where
\* B matches one of the nodes A matches and another node of A remains.
C6_Witness ==
    /\ pc = "evaluated"
    /\ surface.form = "Composite"
    /\ surface.kind # <<>>
    /\ surface.kind[1].variant = "Union"
    /\ Len(OperatorValues(surface)) = 2
    /\ IsAtomDefinition(OperatorValues(surface)[1])
    /\ OperatorValues(surface)[2].form = "Exclude"
    /\ Len(OperatorValues(surface)[2].exclude) = 1
    /\ IsAtomDefinition(OperatorValues(surface)[2].exclude[1])
    /\ Matches(ParsedAlone(OperatorValues(surface)[1]).expr)
          \cap Matches(ParsedAlone(OperatorValues(surface)[2].exclude[1]).expr) # {}
    /\ result # {}

\* the positions of the standalone exclude blocks among the values of a
\* composite, in order
RECURSIVE ExcludePositions(_, _)
ExcludePositions(values, i) ==
    IF i > Len(values) THEN <<>>
    ELSE IF values[i].form = "Exclude" THEN <<i>> \o ExcludePositions(values, i + 1)
    ELSE ExcludePositions(values, i + 1)

\* the expression one standalone exclude block is hoisted as
HoistedAlone(block) ==
    IF Len(block.exclude) = 1 THEN ParsedAlone(block.exclude[1]).expr
    ELSE Or([k \in 1..Len(block.exclude) |-> ParsedAlone(block.exclude[k]).expr])

\* C7: a composite with several standalone exclude blocks parses to an And
\* of the includes and a single Exclude, whose inner expression is the Or of
\* all the hoisted excludes in order; evaluated, the nodes removed from the
\* includes are the union of the match sets of the excludes.
C7_MultipleExcludesAreOred ==
    ( /\ Parsed
      /\ surface.form = "Composite"
      /\ surface.kind # <<>>
      /\ Len(ExcludePositions(OperatorValues(surface), 1)) >= 2 )
    => LET positions == ExcludePositions(OperatorValues(surface), 1)
           hoisted == [k \in 1..Len(positions) |-> HoistedAlone(OperatorValues(surface)[positions[k]])]
       IN  /\ expr.tag = "And"
           /\ Len(expr.exprs) = 2
           /\ expr.exprs[1].tag \in {"And", "Or"}
           /\ expr.exprs[2] = Exclude(Or(hoisted))
           /\ pc = "evaluated" =>
                 result = Matches(expr.exprs[1]) \ UNION { Matches(hoisted[k]) : k \in 1..Len(hoisted) }

\* C7 happens: a composite with two standalone exclude blocks has been parsed
\* and evaluated, each block removed a node the other did not, and a node
\* remains.
C7_Witness ==
    /\ pc = "evaluated"
    /\ surface.form = "Composite"
    /\ surface.kind # <<>>
    /\ Len(ExcludePositions(OperatorValues(surface), 1)) = 2
    /\ LET positions == ExcludePositions(OperatorValues(surface), 1)
           first == Matches(HoistedAlone(OperatorValues(surface)[positions[1]]))
           second == Matches(HoistedAlone(OperatorValues(surface)[positions[2]]))
       IN  /\ (Matches(expr.exprs[1]) \cap first) \ second # {}
           /\ (Matches(expr.exprs[1]) \cap second) \ first # {}
    /\ result # {}

\* a method atom whose method is "selector" and whose value is registered
IsSelectorReference(d) ==
    /\ d.form = "Method"
    /\ d.method = <<"selector">>
    /\ d.value \in DOMAIN defs

\* C9: parsing an atom with method "selector" and a registered name returns
\* exactly what parse_named of that name returns, whatever graph flags,
\* depths and exclude list the referencing atom carries.
C9_SelectorInheritanceIdentity ==
    ( /\ pc # "input"
      /\ call \in {"parse_atom", "parse_expr", "parse_definition"}
      /\ IsSelectorReference(surface) )
    => /\ outcome.ok = parse_named(surface.value, MaxDepth).ok
       /\ outcome.expr = parse_named(surface.value, MaxDepth).expr
       /\ outcome.err = parse_named(surface.value, MaxDepth).err
       /\ (outcome.ok /\ Parsed) => expr = parse_named(surface.value, MaxDepth).expr

\* C9 happens: parse_atom has returned for a reference that carries graph
\* operators and an exclude list, to a selector that is itself a reference
\* to a reference (two levels) or that parses to an atom (one level).
C9_Witness ==
    /\ call = "parse_atom"
    /\ IsSelectorReference(surface)
    /\ has_graph_operators(surface)
    /\ surface.exclude # None
    /\ surface.exclude[1] # <<>>
    /\ outcome.ok
    /\ \/ /\ defs[surface.value].definition.form = "Method"
          /\ IsSelectorReference(defs[surface.value].definition)
          /\ IsSelectorReference(defs[defs[surface.value].definition.value].definition)
       \/ expr.tag = "Atom"

\* the sub-definitions written directly inside a definition: the entries of
\* a composite's lists, of a standalone exclude block and of an atom's
\* exclude list
Written(d) ==
    CASE d.form = "Composite" ->
            UNION { { d.kind[k].values[i] : i \in 1..Len(d.kind[k].values) } : k \in 1..Len(d.kind) }
      [] d.form = "Exclude" -> { d.exclude[i] : i \in 1..Len(d.exclude) }
      [] d.form = "Method" ->
            IF d.exclude = None THEN {} ELSE { d.exclude[1][i] : i \in 1..Len(d.exclude[1]) }
      [] OTHER -> {}

\* the sub-definitions the parser hands to parse_definition while it parses
\* a definition: the values of a composite's operator, a standalone exclude
\* block among them replaced by its entries, and the entries of the exclude
\* list of a method atom that is no selector reference
Visited(d) ==
    CASE d.form = "Composite" /\ d.kind # <<>> ->
            UNION { IF OperatorValues(d)[i].form = "Exclude"
                    THEN { OperatorValues(d)[i].exclude[j] : j \in 1..Len(OperatorValues(d)[i].exclude) }
                    ELSE { OperatorValues(d)[i] } : i \in 1..Len(OperatorValues(d)) }
      [] d.form = "Method" /\ d.method # <<"selector">> ->
            IF d.exclude = None THEN {} ELSE { d.exclude[1][i] : i \in 1..Len(d.exclude[1]) }
      [] OTHER -> {}

\* every sub-definition nested anywhere inside a definition, written or
\* visited
RECURSIVE NestedWritten(_, _)
NestedWritten(d, fuel) ==
    IF fuel = 0 THEN {}
    ELSE Written(d) \cup UNION { NestedWritten(x, fuel - 1) : x \in Written(d) }

RECURSIVE NestedVisited(_, _)
NestedVisited(d, fuel) ==
    IF fuel = 0 THEN {}
    ELSE Visited(d) \cup UNION { NestedVisited(x, fuel - 1) : x \in Visited(d) }

\* how deep the definitions of the inputs nest
NestingFuel == 4

IsDefinitionCall == pc # "input" /\ call \in {"parse_definition", "parse_expr", "parse_composite", "parse_atom"}

\* C10 as stated: if any sub-definition nested anywhere inside a definition
\* (an entry of a composite list, of a standalone exclude block or of an
\* atom's exclude list) fails to parse by itself, parsing the whole
\* definition fails.
C10_AnyFailingSubDefinitionAborts ==
    ( /\ IsDefinitionCall
      /\ \E x \in NestedWritten(surface, NestingFuel) : ~ParsedAlone(x).ok )
    => Rejected

\* C10 amended: if any sub-definition that the parser parses on its way
\* through a definition fails to parse by itself, parsing the whole
\* definition fails with an error and returns no expression. These are the
\* values of a composite's operator other than standalone exclude blocks,
\* the entries of a standalone exclude block of a composite, and the entries
\* of the exclude list of a method atom that is no selector reference.
C10_FailingParsedSubDefinitionAborts ==
    ( /\ IsDefinitionCall
      /\ \E x \in NestedVisited(surface, NestingFuel) : ~ParsedAlone(x).ok )
    => /\ Rejected
       /\ ~outcome.ok
       /\ expr = NoExpr

\* C10 happens: a composite has been rejected whose values other than
\* standalone exclude blocks all parse by themselves, because an entry of
\* one of its exclude blocks does not.
C10_Witness ==
    /\ Rejected
    /\ call = "parse_definition"
    /\ surface.form = "Composite"
    /\ surface.kind # <<>>
    /\ \A i \in 1..Len(OperatorValues(surface)) :
          OperatorValues(surface)[i].form # "Exclude" => ParsedAlone(OperatorValues(surface)[i]).ok
    /\ \E i \in 1..Len(OperatorValues(surface)) :
          /\ OperatorValues(surface)[i].form = "Exclude"
          /\ \E j \in 1..Len(OperatorValues(surface)[i].exclude) :
                ~ParsedAlone(OperatorValues(surface)[i].exclude[j]).ok

\* a parser call has returned for the surface definition
HasReturned == pc # "input"

IsAtomCall == HasReturned /\ call \in {"parse_atom", "parse_expr", "parse_definition"}

IsCompositeCall == HasReturned /\ call \in {"parse_composite", "parse_expr", "parse_definition"}

\* two results agree in everything but the warnings
SameResult(r1, r2) == r1.ok = r2.ok /\ r1.expr = r2.expr /\ r1.err = r2.err

\* the method atom a one-entry shorthand {m: v} abbreviates: method m,
\* value v, no graph operators, the default indirect mode, no exclude list
ShorthandAtom(d) ==
    MethodAtomExpr(d.method_value[1][1], d.method_value[1][2], FALSE, FALSE, FALSE,
                   None, None, Some(IndirectSelection_default), None)

\* C11 as stated: for every method key m and value v, m = "selector"
\* included, parsing the one-entry shorthand {m: v} returns what parsing the
\* method atom with method m, value v, no graph operators, the default
\* indirect mode and no exclude list returns.
C11_ShorthandIsAtomForm ==
    ( /\ IsAtomCall
      /\ surface.form = "MethodKey"
      /\ Len(surface.method_value) = 1
      /\ surface.method_value[1][1] = <<"selector">> => surface.method_value[1][2] \in DOMAIN defs )
    => SameResult(outcome, parse_atom(ShorthandAtom(surface), MaxDepth))

\* C11 amended: for every method key m other than "selector" and every
\* value v, parsing the one-entry shorthand {m: v} returns what parsing the
\* method atom with method m, value v, no graph operators, the default
\* indirect mode and no exclude list returns.
C11_ShorthandIsAtomFormUnlessSelector ==
    ( /\ IsAtomCall
      /\ surface.form = "MethodKey"
      /\ Len(surface.method_value) = 1
      /\ surface.method_value[1][1] # <<"selector">> )
    => SameResult(outcome, parse_atom(ShorthandAtom(surface), MaxDepth))

\* C11 happens: parse_atom has returned an atom for a one-entry shorthand
\* with a dotted method other than "selector".
C11_Witness ==
    /\ call = "parse_atom"
    /\ surface.form = "MethodKey"
    /\ Len(surface.method_value) = 1
    /\ surface.method_value[1][1] # <<"selector">>
    /\ outcome.ok
    /\ outcome.expr.tag = "Atom"
    /\ outcome.expr.criteria.method_args # <<>>
    /\ outcome.expr.criteria.indirect = Some(IndirectSelection_default)

\* a reference to a selector name the registry lacks
IsMissingReference(d) ==
    /\ d.form = "Method"
    /\ d.method = <<"selector">>
    /\ d.value \notin DOMAIN defs

\* C12: looking up a selector name that the registry lacks fails with
\* "Unknown selector" and returns no expression: through parse_named, and
\* through an atom with method "selector" that the parser reaches at any
\* depth of a definition.  The whole parse is rejected; its error is
\* "Unknown selector" unless another sub-definition on the parser's way
\* fails with an error of its own.
C12_UnknownSelector ==
    /\ ( /\ HasReturned
         /\ call = "parse_named"
         /\ surface.name \notin DOMAIN defs )
       => /\ Rejected
          /\ outcome.err = UnknownSelector
          /\ expr = NoExpr
    /\ ( /\ IsAtomCall
         /\ IsMissingReference(surface) )
       => /\ Rejected
          /\ outcome.err = UnknownSelector
          /\ expr = NoExpr
    /\ ( /\ HasReturned
         /\ call # "parse_named"
         /\ \E x \in NestedVisited(surface, NestingFuel) : IsMissingReference(x) )
       => /\ Rejected
          /\ ~outcome.ok
          /\ expr = NoExpr
          /\ \/ outcome.err = UnknownSelector
             \/ \E x \in NestedVisited(surface, NestingFuel) :
                   ~ParsedAlone(x).ok /\ ParsedAlone(x).err # UnknownSelector
             \/ /\ surface.form = "Composite"
                /\ \E i \in 1..Len(OperatorValues(surface)) :
                      /\ OperatorValues(surface)[i].form = "Exclude"
                      /\ OperatorValues(surface)[i].exclude = <<>>

\* C12 happens: the parse of a method atom has been rejected with "Unknown
\* selector" because an entry of its exclude list refers to a selector the
\* registry lacks, while the registry holds other selectors.
C12_Witness ==
    /\ Rejected
    /\ DOMAIN defs # {}
    /\ surface.form = "Method"
    /\ surface.method # <<"selector">>
    /\ \E x \in Visited(surface) : IsMissingReference(x)
    /\ outcome.err = UnknownSelector

\* C13: a standalone exclude block given as the top-level definition to
\* parse_definition, parse_expr or parse_atom is rejected with "Top level
\* exclude not allowed", whatever it holds; no Exclude expression is
\* returned.
C13_TopLevelExcludeRejected ==
    ( /\ IsAtomCall
      /\ surface.form = "Exclude" )
    => /\ Rejected
       /\ ~outcome.ok
       /\ outcome.err = TopLevelExclude
       /\ outcome.expr = NoExpr
       /\ expr = NoExpr

\* C13 happens: a top-level exclude block has been rejected all of whose
\* entries, two of them, parse by themselves.
C13_Witness ==
    /\ Rejected
    /\ IsAtomCall
    /\ surface.form = "Exclude"
    /\ Len(surface.exclude) = 2
    /\ \A i \in 1..Len(surface.exclude) : ParsedAlone(surface.exclude[i]).ok

\* C14: the shorthand parses only when it has exactly one key/value pair:
\* with no pair and with two or more pairs the parse fails with "MethodKey
\* must have exactly one key-value pair".
C14_MethodKeyExactlyOnePair ==
    ( /\ IsAtomCall
      /\ surface.form = "MethodKey" )
    => /\ outcome.ok => Len(surface.method_value) = 1
       /\ Len(surface.method_value) # 1 =>
             /\ Rejected
             /\ outcome.err = MethodKeyPairs
             /\ expr = NoExpr

\* C14 happens: a shorthand of two pairs, either of which names a method,
\* has been rejected.
C14_Witness ==
    /\ Rejected
    /\ IsAtomCall
    /\ surface.form = "MethodKey"
    /\ Len(surface.method_value) = 2
    /\ outcome.err = MethodKeyPairs

\* the values of a composite that are no standalone exclude blocks, and
\* those that are, each in list order
IncludeEntries(d) == SelectSeq(OperatorValues(d), LAMBDA v : v.form # "Exclude")

ExcludeEntries(d) == SelectSeq(OperatorValues(d), LAMBDA v : v.form = "Exclude")

\* the include expression of a composite, from its entries parsed alone
IncludesAlone(d) ==
    LET includes == [k \in 1..Len(IncludeEntries(d)) |-> ParsedAlone(IncludeEntries(d)[k]).expr]
    IN  IF d.kind[1].variant = "Union" THEN Or(includes) ELSE And(includes)

\* the combined exclude of a composite, from its exclude blocks parsed alone
CombinedAlone(d) ==
    LET hoisted == [k \in 1..Len(ExcludeEntries(d)) |-> HoistedAlone(ExcludeEntries(d)[k])]
    IN  IF Len(hoisted) = 1 THEN hoisted[1] ELSE Or(hoisted)

\* C15: a composite without standalone exclude blocks parses to Or(includes)
\* for union and And(includes) for intersection, operands in list order and
\* no wrapper; with one or more standalone exclude blocks at any positions
\* it parses, for union and intersection alike, to the two-operand
\* And([include_expr, Exclude(combined)]), include_expr built from the other
\* entries in their order.
C15_CompositeNormalisation ==
    ( /\ IsCompositeCall
      /\ outcome.ok
      /\ surface.form = "Composite"
      /\ surface.kind # <<>> )
    => outcome.expr = IF ExcludeEntries(surface) = <<>>
                      THEN IncludesAlone(surface)
                      ELSE And(<<IncludesAlone(surface), Exclude(CombinedAlone(surface))>>)

\* C15 happens: a union has been parsed whose first entry is a standalone
\* exclude block and whose two other entries are includes.
C15_Witness ==
    /\ IsCompositeCall
    /\ outcome.ok
    /\ surface.form = "Composite"
    /\ surface.kind # <<>>
    /\ surface.kind[1].variant = "Union"
    /\ Len(OperatorValues(surface)) = 3
    /\ OperatorValues(surface)[1].form = "Exclude"
    /\ Len(IncludeEntries(surface)) = 2
    /\ IncludeEntries(surface)[1] # IncludeEntries(surface)[2]
    /\ outcome.expr.tag = "And"
    /\ outcome.expr.exprs[1].tag = "Or"

\* a method atom that is no selector reference and carries an exclude list
HasExcludeList(d) ==
    /\ d.form = "Method"
    /\ d.method # <<"selector">>
    /\ d.exclude # None

\* the nested exclude of a method atom, from the entries of its exclude list
\* parsed alone
NestedAlone(list) ==
    IF list = <<>> THEN None
    ELSE IF Len(list) = 1 THEN Some(ParsedAlone(list[1]).expr)
    ELSE Some(Or([k \in 1..Len(list) |-> ParsedAlone(list[k]).expr]))

\* C16: the exclude list of a method atom is never hoisted: the atom parses
\* to one Atom whose nested exclude is the parsed entry for a list of one
\* entry and Or(entries in list order) for a longer list, and a composite
\* keeps this Atom as an ordinary include operand, without an And / Exclude
\* wrapper for it.
C16_AtomExcludeStaysNested ==
    /\ ( /\ IsAtomCall
         /\ outcome.ok
         /\ HasExcludeList(surface) )
       => /\ outcome.expr.tag = "Atom"
          /\ outcome.expr.criteria.exclude = NestedAlone(surface.exclude[1])
    /\ ( /\ IsCompositeCall
         /\ outcome.ok
         /\ surface.form = "Composite"
         /\ surface.kind # <<>> )
       => LET include_expr == IF ExcludeEntries(surface) = <<>> THEN outcome.expr ELSE outcome.expr.exprs[1]
          IN  \A k \in 1..Len(IncludeEntries(surface)) :
                 HasExcludeList(IncludeEntries(surface)[k]) =>
                    /\ include_expr.tag = (IF surface.kind[1].variant = "Union" THEN "Or" ELSE "And")
                    /\ Len(include_expr.exprs) = Len(IncludeEntries(surface))
                    /\ include_expr.exprs[k].tag = "Atom"
                    /\ include_expr.exprs[k].criteria.exclude = NestedAlone(IncludeEntries(surface)[k].exclude[1])

\* C16 happens: a composite has been parsed that holds a method atom with an
\* exclude list of two entries next to another include, and the atom is an
\* operand of the include expression with the Or of the two as its nested
\* exclude.
C16_Witness ==
    /\ IsCompositeCall
    /\ outcome.ok
    /\ surface.form = "Composite"
    /\ surface.kind # <<>>
    /\ ExcludeEntries(surface) = <<>>
    /\ Len(IncludeEntries(surface)) = 2
    /\ HasExcludeList(IncludeEntries(surface)[2])
    /\ Len(IncludeEntries(surface)[2].exclude[1]) = 2
    /\ outcome.expr.exprs[2].tag = "Atom"
    /\ outcome.expr.exprs[2].criteria.exclude # None
    /\ outcome.expr.exprs[2].criteria.exclude[1].tag = "Or"

\* a method atom that is no selector reference
IsMethodAtom(d) == d.form = "Method" /\ d.method # <<"selector">>

\* C18 as stated: the resulting parents_depth is u32::MAX exactly when
\* parents is true and no explicit depth is given, and otherwise it is the
\* supplied parents_depth unchanged; the same for children and
\* children_depth.
C18_SentinelExactlyWhenFlagWithoutDepth ==
    ( /\ IsAtomCall
      /\ outcome.ok
      /\ IsMethodAtom(surface) )
    => /\ outcome.expr.criteria.parents_depth = Some(U32_MAX)
             <=> (surface.parents /\ surface.parents_depth = None)
       /\ ~(surface.parents /\ surface.parents_depth = None)
             => outcome.expr.criteria.parents_depth = surface.parents_depth
       /\ outcome.expr.criteria.children_depth = Some(U32_MAX)
             <=> (surface.children /\ surface.children_depth = None)
       /\ ~(surface.children /\ surface.children_depth = None)
             => outcome.expr.criteria.children_depth = surface.children_depth

\* C18 amended: the resulting parents_depth is u32::MAX when parents is true
\* and no explicit depth is given, and otherwise it is the supplied
\* parents_depth unchanged (absent stays absent, an explicit depth d stays d
\* whatever parents is, d = u32::MAX included); the same, independently, for
\* children and children_depth.
C18_DepthNormalisation ==
    ( /\ IsAtomCall
      /\ outcome.ok
      /\ IsMethodAtom(surface) )
    => /\ outcome.expr.criteria.parents_depth =
             IF surface.parents /\ surface.parents_depth = None THEN Some(U32_MAX) ELSE surface.parents_depth
       /\ outcome.expr.criteria.children_depth =
             IF surface.children /\ surface.children_depth = None THEN Some(U32_MAX) ELSE surface.children_depth

\* C18 happens: a method atom has been parsed with parents set and no
\* parents depth, and with an explicit children depth while children is not
\* set: the one became u32::MAX, the other stayed.
C18_Witness ==
    /\ IsAtomCall
    /\ outcome.ok
    /\ IsMethodAtom(surface)
    /\ surface.parents
    /\ surface.parents_depth = None
    /\ ~surface.children
    /\ surface.children_depth # None
    /\ surface.children_depth # Some(U32_MAX)
    /\ outcome.expr.criteria.parents_depth = Some(U32_MAX)
    /\ outcome.expr.criteria.children_depth = surface.children_depth

\* a standalone exclude block that names no sub-definition
IsEmptyExcludeBlock(d) == d.form = "Exclude" /\ d.exclude = <<>>

\* an entry of a composite list lets the loop of parse_composite go on
EntryParses(d) ==
    IF d.form = "Exclude"
    THEN d.exclude # <<>> /\ \A k \in 1..Len(d.exclude) : ParsedAlone(d.exclude[k]).ok
    ELSE ParsedAlone(d).ok

\* C19: a standalone exclude block that names no sub-definition, as an entry
\* of a composite list, makes the parse of the composite fail: no expression
\* is returned, and the error is "Empty exclude list" when the parser gets
\* as far as the block (no entry before it fails).
C19_EmptyExcludeListRejected ==
    ( /\ IsCompositeCall
      /\ surface.form = "Composite"
      /\ surface.kind # <<>>
      /\ \E i \in 1..Len(OperatorValues(surface)) : IsEmptyExcludeBlock(OperatorValues(surface)[i]) )
    => /\ Rejected
       /\ ~outcome.ok
       /\ expr = NoExpr
       /\ \A i \in 1..Len(OperatorValues(surface)) :
             ( /\ IsEmptyExcludeBlock(OperatorValues(surface)[i])
               /\ \A j \in 1..(i - 1) : EntryParses(OperatorValues(surface)[j]) )
             => outcome.err = EmptyExcludeList

\* C19 happens: a composite has been rejected with "Empty exclude list"
\* whose first entry parses and whose second entry is an exclude block
\* without entries.
C19_Witness ==
    /\ Rejected
    /\ IsCompositeCall
    /\ surface.form = "Composite"
    /\ surface.kind # <<>>
    /\ Len(OperatorValues(surface)) = 2
    /\ ParsedAlone(OperatorValues(surface)[1]).ok
    /\ IsEmptyExcludeBlock(OperatorValues(surface)[2])
    /\ outcome.err = EmptyExcludeList

\* C20: a composite whose operator map has no entry, neither union nor
\* intersection, fails to parse with "Empty composite expression".
C20_EmptyCompositeRejected ==
    ( /\ IsCompositeCall
      /\ surface.form = "Composite"
      /\ surface.kind = <<>> )
    => /\ Rejected
       /\ ~outcome.ok
       /\ outcome.err = EmptyComposite
       /\ expr = NoExpr

\* C20 happens: parse_composite has returned for a composite with an empty
\* operator map, with a registry that holds selectors.
C20_Witness ==
    /\ HasReturned
    /\ call = "parse_composite"
    /\ surface.form = "Composite"
    /\ surface.kind = <<>>
    /\ DOMAIN defs # {}
    /\ ~outcome.ok

---------------------------------------------------------------------------
(* Properties of the propagator, checked under SpecParse.                  *)

\* the atoms of a tree reachable through And / Or operands and Exclude inner
\* expressions
RECURSIVE ReachableAtoms(_)
ReachableAtoms(e) ==
    CASE e.tag = "Atom" -> {e}
      [] e.tag \in {"And", "Or"} -> UNION { ReachableAtoms(e.exprs[i]) : i \in 1..Len(e.exprs) }
      [] e.tag = "Exclude" -> ReachableAtoms(e.inner)
      [] OTHER -> {}

\* two trees differ at most in the indirect field of their reachable atoms
RECURSIVE SameButIndirect(_, _)
SameButIndirect(a, b) ==
    /\ a.tag = b.tag
    /\ CASE a.tag = "Atom" -> [a.criteria EXCEPT !.indirect = None] = [b.criteria EXCEPT !.indirect = None]
         [] a.tag \in {"And", "Or"} ->
               /\ Len(a.exprs) = Len(b.exprs)
               /\ \A i \in 1..Len(a.exprs) : SameButIndirect(a.exprs[i], b.exprs[i])
         [] a.tag = "Exclude" -> SameButIndirect(a.inner, b.inner)
         [] OTHER -> TRUE

\* C17: after set_indirect_selection(mode) every Atom reachable through
\* And / Or operands and Exclude inner expressions holds that mode in its
\* indirect field, whatever it held before, and nothing else of the tree has
\* changed; applying the propagator with m1 and then with m2 gives the tree
\* that applying it with m2 alone gives.
C17_IndirectSelectionPropagation ==
    pc = "stamped" =>
        /\ \A a \in ReachableAtoms(expr) : a.criteria.indirect = effective_mode
        /\ SameButIndirect(expr, outcome.expr)
        /\ \A m2 \in Modes : set_indirect_selection(expr, m2) = set_indirect_selection(outcome.expr, m2)

\* C17 happens: the propagator has run on And([includes, Exclude(..)]) where
\* an atom of the includes held another mode and an atom under the Exclude
\* held none.
C17_Witness ==
    /\ pc = "stamped"
    /\ outcome.expr.tag = "And"
    /\ Len(outcome.expr.exprs) = 2
    /\ outcome.expr.exprs[2].tag = "Exclude"
    /\ \E a \in ReachableAtoms(outcome.expr.exprs[1]) :
          a.criteria.indirect # None /\ a.criteria.indirect # effective_mode
    /\ \E b \in ReachableAtoms(outcome.expr.exprs[2]) : b.criteria.indirect = None
    /\ expr # outcome.expr

---------------------------------------------------------------------------
(* Further properties of the evaluator, checked under Spec.                *)

\* an And or an Or without operands
IsEmptyComposite(e) == e.tag \in {"And", "Or"} /\ e.exprs = <<>>

\* C21: an And or an Or with an empty operand list evaluates to the empty
\* set for every node collection, never to the set of all nodes: as the whole
\* expression, under an Exclude, and as the first operand of an And, whose
\* result is then empty too.
C21_EmptyOperandListIsEmpty ==
    pc = "evaluated" =>
        /\ IsEmptyComposite(expr) => result = {}
        /\ (expr.tag = "And" /\ expr.exprs # <<>> /\ IsEmptyComposite(expr.exprs[1])) => result = {}
        /\ (expr.tag = "Exclude" /\ IsEmptyComposite(expr.inner)) => result = {}

\* C21 happens: an Or without operands has been evaluated against the
\* collection of all three test nodes.
C21_Witness ==
    /\ pc = "evaluated"
    /\ expr = Or(<<>>)
    /\ Len(all_nodes) = 3
    /\ result = {}

\* an Exclude operand after the first position matches no node
SomeLaterExcludeMatchesNothing ==
    \E i \in 2..Len(expr.exprs) :
        expr.exprs[i].tag = "Exclude" /\ Matches(expr.exprs[i].inner) = {}

\* C26: evaluate_and and evaluate_and_buggy return the same set for every
\* operand list and node collection in which every Exclude operand after the
\* first position has a non-empty match set; they differ only when such an
\* Exclude operand matches nothing, and there the historical version returns
\* the empty set.
C26_BuggyDiffersOnlyOnEmptyExclude ==
    pc = "evaluated_buggy" =>
        /\ ~SomeLaterExcludeMatchesNothing => result = evaluate_and(expr.exprs, all_nodes)
        /\ (expr.exprs # <<>> /\ SomeLaterExcludeMatchesNothing) => result = {}
        /\ result # evaluate_and(expr.exprs, all_nodes) =>
              (expr.exprs # <<>> /\ SomeLaterExcludeMatchesNothing /\ result = {})

\* C26 happens: the historical version has evaluated an And in which an
\* Exclude operand after the first matches one of the nodes the first
\* operand matches, no Exclude operand matches nothing, and a node remains.
C26_Witness ==
    /\ pc = "evaluated_buggy"
    /\ Len(expr.exprs) >= 2
    /\ ~SomeLaterExcludeMatchesNothing
    /\ \E i \in 2..Len(expr.exprs) :
          /\ expr.exprs[i].tag = "Exclude"
          /\ Matches(expr.exprs[i].inner) \cap Matches(expr.exprs[1]) # {}
    /\ result # {}
    /\ result = evaluate_and(expr.exprs, all_nodes)

---------------------------------------------------------------------------
(* Further properties of the parser, checked under SpecParse.              *)

\* the tree holds an And or an Or without operands, the nested exclude
\* fields of its atoms included
RECURSIVE ContainsEmptyComposite(_)
ContainsEmptyComposite(e) ==
    CASE e.tag = "Atom" ->
            e.criteria.exclude # None /\ ContainsEmptyComposite(e.criteria.exclude[1])
      [] e.tag \in {"And", "Or"} ->
            e.exprs = <<>> \/ \E i \in 1..Len(e.exprs) : ContainsEmptyComposite(e.exprs[i])
      [] e.tag = "Exclude" -> ContainsEmptyComposite(e.inner)
      [] OTHER -> FALSE

\* the definition a parser call starts from
StartDefinition ==
    IF surface.form = "Named"
    THEN (IF surface.name \in DOMAIN defs THEN defs[surface.name].definition ELSE NoDef)
    ELSE surface

\* the definitions parse_definition is handed next while it parses d: the
\* sub-definitions it visits and the definition of a referenced selector
Followed(d) ==
    Visited(d) \cup (IF IsSelectorReference(d) THEN {defs[d.value].definition} ELSE {})

\* every definition the parser goes through from d on
RECURSIVE Reached(_, _)
Reached(d, fuel) ==
    IF fuel = 0 THEN {d}
    ELSE {d} \cup UNION { Reached(x, fuel - 1) : x \in Followed(d) }

ReachedBlocks == Reached(StartDefinition, NestingFuel + MaxDepth)

\* a composite block with an operator whose list holds no include
HasNoInclude(d) ==
    /\ d.form = "Composite"
    /\ d.kind # <<>>
    /\ \A i \in 1..Len(OperatorValues(d)) : OperatorValues(d)[i].form = "Exclude"

\* C22 as stated: an accepted parse returns a tree that holds an And or an
\* Or with an empty operand list only when the parser went through a
\* composite block whose list holds standalone exclude blocks and nothing
\* else.
C22_EmptyCompositeOnlyFromExcludeOnlyBlock ==
    ( /\ HasReturned
      /\ outcome.ok
      /\ ContainsEmptyComposite(outcome.expr) )
    => \E c \in ReachedBlocks : HasNoInclude(c) /\ OperatorValues(c) # <<>>

\* C22 amended: an accepted parse returns a tree that holds an And or an Or
\* with an empty operand list only when the parser went through a composite
\* block whose list holds no include: a list that is empty, or a list of
\* standalone exclude blocks only.
C22_EmptyCompositeOnlyFromBlockWithoutInclude ==
    ( /\ HasReturned
      /\ outcome.ok
      /\ ContainsEmptyComposite(outcome.expr) )
    => \E c \in ReachedBlocks : HasNoInclude(c)

\* C22 happens: a composite with an include has been accepted and its tree
\* holds an Or or And without operands, which comes from a composite nested
\* in it whose list holds exclude blocks only.
C22_Witness ==
    /\ HasReturned
    /\ outcome.ok
    /\ surface.form = "Composite"
    /\ surface.kind # <<>>
    /\ ~HasNoInclude(surface)
    /\ ContainsEmptyComposite(outcome.expr)
    /\ \E x \in Visited(surface) : HasNoInclude(x) /\ OperatorValues(x) # <<>>

\* a composite block whose list holds standalone exclude blocks and nothing
\* else
IsExcludeOnly(d) == HasNoInclude(d) /\ OperatorValues(d) # <<>>

\* C23: a composite, union or intersection, whose list holds standalone
\* exclude blocks only parses to And([Or([]), Exclude(..)]) for a union and
\* to And([And([]), Exclude(..)]) for an intersection, and that tree
\* evaluates to the empty set for every node collection, whatever the
\* excludes match.
C23_ExcludeOnlyCompositeSelectsNothing ==
    ( /\ IsCompositeCall
      /\ outcome.ok
      /\ IsExcludeOnly(surface) )
    => /\ outcome.expr =
             And(<< IF surface.kind[1].variant = "Union" THEN Or(<<>>) ELSE And(<<>>),
                    Exclude(CombinedAlone(surface)) >>)
       /\ \A nodes \in NodeCollections : evaluate_select_expression(outcome.expr, nodes) = {}
       /\ pc = "evaluated" => result = {}

\* C23 happens: a composite of two exclude blocks has been parsed and
\* evaluated to the empty set, and the excludes match a node of the
\* collection.
C23_Witness ==
    /\ pc = "evaluated"
    /\ IsExcludeOnly(surface)
    /\ Len(OperatorValues(surface)) = 2
    /\ expr.tag = "And"
    /\ Matches(expr.exprs[2].inner) # {}
    /\ result = {}

---------------------------------------------------------------------------
(* Recursion through the registry, checked under SpecParse.                *)

\* a method atom with method "selector"
IsReference(d) == d.form = "Method" /\ d.method = <<"selector">>

\* the selector names the parser looks up while it parses d, the lookups
\* made further down in the registry not counted
ReferencedNames(d) ==
    { x.value : x \in { y \in {d} \cup NestedVisited(d, NestingFuel) : IsReference(y) } }

\* the names looked up within `steps` further levels of the registry
RECURSIVE NamesWithin(_, _)
NamesWithin(names, steps) ==
    IF steps = 0 THEN names
    ELSE names \cup
         NamesWithin(UNION { ReferencedNames(defs[n].definition) : n \in names \cap DOMAIN defs }, steps - 1)

\* every name looked up on the way from the names given
NamesFrom(names) == NamesWithin(names, Cardinality(DOMAIN defs))

\* a registered selector that refers to itself, directly or through others
OnCycle(n) ==
    n \in DOMAIN defs /\ n \in NamesFrom(ReferencedNames(defs[n].definition))

\* the call stack cannot hold the recursion: the process aborts, no FsResult
\* is returned
Overflowed == HasReturned /\ ~outcome.ok /\ outcome.err = StackOverflow

\* C24: parsing a selector reference whose chain of named-selector
\* references contains a cycle fails fast with a selection error rather than
\* recursing without bound.
C24_CycleFailsFast ==
    ( /\ HasReturned
      /\ \/ surface.form = "Named"
         \/ call \in {"parse_atom", "parse_expr", "parse_definition"} /\ IsReference(surface)
      /\ \E n \in NamesFrom(IF surface.form = "Named" THEN {surface.name} ELSE {surface.value}) : OnCycle(n) )
    => /\ Rejected
       /\ ~Overflowed

\* no registered selector refers to itself, directly or through others
Acyclic == \A n \in DOMAIN defs : ~OnCycle(n)

\* the errors the parser returns as FsResult
SelectionErrors ==
    {UnknownSelector, EmptyComposite, EmptyExcludeList, MethodKeyPairs, TopLevelExclude, InvalidSpecifier}

\* C25: with a registry in which the "selector" references between named
\* selectors form no cycle, parse_named and parse_definition terminate for
\* every surface definition: the recursion through the registry ends before
\* the call stack does, and the call returns either one expression or one
\* selection error.
C25_AcyclicParseTerminates ==
    ( /\ HasReturned
      /\ call \in {"parse_named", "parse_definition"}
      /\ Acyclic )
    => /\ ~Overflowed
       /\ outcome.ok => (outcome.expr # NoExpr /\ outcome.err = "" /\ ~Rejected)
       /\ ~outcome.ok => (outcome.expr = NoExpr /\ outcome.err \in SelectionErrors /\ Rejected)

\* C25 happens: with a registry without cycles, parse_named has returned an
\* expression for a selector that refers to a selector that refers to a
\* third one.
C25_Witness ==
    /\ HasReturned
    /\ call = "parse_named"
    /\ Acyclic
    /\ outcome.ok
    /\ surface.name \in DOMAIN defs
    /\ IsSelectorReference(defs[surface.name].definition)
    /\ IsSelectorReference(defs[defs[surface.name].definition.value].definition)

---------------------------------------------------------------------------
(* Warnings, checked under SpecParse.                                      *)

\* what the lookup of the selector a reference names returns
Referenced(d) == parse_named(d.value, MaxDepth)

\* C27: parsing a reference (method "selector") emits the "graph operators
\* ignored" warning exactly when the referenced selector has been resolved
\* successfully and one of childrens_parents, parents, children,
\* parents_depth, children_depth is set on the referencing atom.  The
\* warning comes after everything the resolution of the referenced selector
\* emitted, it is not emitted when the lookup or the nested parse fails, and
\* the returned expression is that of the referenced selector either way.
C27_GraphOperatorsWarning ==
    ( /\ IsAtomCall
      /\ IsReference(surface) )
    => /\ outcome.warns =
             IF Referenced(surface).ok /\ has_graph_operators(surface)
             THEN Append(Referenced(surface).warns, GraphOperatorsIgnored)
             ELSE Referenced(surface).warns
       /\ warnings = outcome.warns
       /\ ~Referenced(surface).ok => GraphOperatorsIgnored \notin { outcome.warns[i] : i \in (Len(Referenced(surface).warns) + 1)..Len(outcome.warns) }
       /\ SameResult(outcome, Referenced(surface))

\* C27 happens: a reference with graph operators has been parsed to a
\* selector that is itself a reference with graph operators: two warnings,
\* the inner one first; the expression is the one of the selector.
C27_Witness ==
    /\ IsAtomCall
    /\ IsSelectorReference(surface)
    /\ has_graph_operators(surface)
    /\ outcome.ok
    /\ IsSelectorReference(defs[surface.value].definition)
    /\ has_graph_operators(defs[surface.value].definition)
    /\ warnings = <<GraphOperatorsIgnored, GraphOperatorsIgnored>>
    /\ outcome.expr = Referenced(surface).expr

---------------------------------------------------------------------------
(* The places of Exclude nodes, checked under SpecParse.                   *)

\* every Exclude of the tree is the second and last operand of a
\* two-operand And whose first operand is an Or or an And; the tree itself,
\* the content of an Exclude and the nested exclude of an atom are no
\* Exclude
RECURSIVE ExcludesWellPlaced(_)
ExcludesWellPlaced(e) ==
    CASE e.tag = "Atom" ->
            e.criteria.exclude = None \/ ExcludesWellPlaced(e.criteria.exclude[1])
      [] e.tag = "And" ->
            \A i \in 1..Len(e.exprs) :
                IF e.exprs[i].tag = "Exclude"
                THEN /\ Len(e.exprs) = 2
                     /\ i = 2
                     /\ e.exprs[1].tag \in {"And", "Or"}
                     /\ ExcludesWellPlaced(e.exprs[i].inner)
                ELSE ExcludesWellPlaced(e.exprs[i])
      [] e.tag = "Or" -> \A i \in 1..Len(e.exprs) : ExcludesWellPlaced(e.exprs[i])
      [] OTHER -> FALSE

\* the number of Exclude nodes of a tree
RECURSIVE SumOver(_, _)
SumOver(f, n) == IF n = 0 THEN 0 ELSE f[n] + SumOver(f, n - 1)

RECURSIVE CountExcludes(_)
CountExcludes(e) ==
    CASE e.tag = "Atom" -> IF e.criteria.exclude = None THEN 0 ELSE CountExcludes(e.criteria.exclude[1])
      [] e.tag \in {"And", "Or"} -> SumOver([i \in 1..Len(e.exprs) |-> CountExcludes(e.exprs[i])], Len(e.exprs))
      [] e.tag = "Exclude" -> 1 + CountExcludes(e.inner)
      [] OTHER -> 0

\* C28: in every expression the parser returns for a structured definition
\* each Exclude node is the second and last operand of a two-operand And
\* whose first operand is the Or / And built from the includes; an Exclude is
\* never the root, never the first operand of an And, never an operand of an
\* Or, never the content of another Exclude and never the direct content of
\* an atom's nested exclude field.
C28_ExcludePlacement ==
    ( /\ HasReturned
      /\ outcome.ok
      /\ surface.form # "String" )
    => ExcludesWellPlaced(outcome.expr)

\* C28 happens: a composite has been parsed to And([includes, Exclude(..)])
\* with a further Exclude inside the content of that Exclude and another
\* among the includes.
C28_Witness ==
    /\ HasReturned
    /\ outcome.ok
    /\ outcome.expr.tag = "And"
    /\ Len(outcome.expr.exprs) = 2
    /\ outcome.expr.exprs[2].tag = "Exclude"
    /\ CountExcludes(outcome.expr.exprs[2].inner) >= 1
    /\ CountExcludes(outcome.expr.exprs[1]) >= 1

---------------------------------------------------------------------------
(* Empty and misplaced exclude lists, checked under SpecParse.             *)

\* the same method atom without its exclude list
WithoutExcludeList(d) == [d EXCEPT !.exclude = None]

\* C29: a method atom (method other than "selector") whose exclude list is
\* present but empty parses successfully to an Atom without nested exclude,
\* the Atom the same atom without exclude list parses to; no "Empty exclude
\* list" error is raised, unlike for an empty standalone exclude block in a
\* composite.
C29_EmptyAtomExcludeListAccepted ==
    /\ ( /\ IsAtomCall
         /\ IsMethodAtom(surface)
         /\ surface.exclude = Some(<<>>) )
       => /\ outcome.ok
          /\ ~Rejected
          /\ outcome.expr.tag = "Atom"
          /\ outcome.expr.criteria.exclude = None
          /\ outcome.expr = parse_atom(WithoutExcludeList(surface), MaxDepth).expr
          /\ outcome.warns = <<>>
    /\ ( /\ IsCompositeCall
         /\ surface.form = "Composite"
         /\ surface.kind # <<>>
         /\ OperatorValues(surface) # <<>>
         /\ IsEmptyExcludeBlock(OperatorValues(surface)[1]) )
       => /\ Rejected
          /\ outcome.err = EmptyExcludeList

\* C29 happens: a method atom with graph operators and a present but empty
\* exclude list has been parsed to an Atom without nested exclude.
C29_Witness ==
    /\ IsAtomCall
    /\ IsMethodAtom(surface)
    /\ surface.exclude = Some(<<>>)
    /\ has_graph_operators(surface)
    /\ outcome.ok
    /\ outcome.expr.tag = "Atom"
    /\ outcome.expr.criteria.exclude = None

\* the list holds a standalone exclude block that the collect gets to: the
\* entries before it parse
ReachesExcludeBlock(list) ==
    \E i \in 1..Len(list) :
        /\ list[i].form = "Exclude"
        /\ \A j \in 1..(i - 1) : ParsedAlone(list[j]).ok

\* a composite whose loop gets to a standalone exclude block that holds a
\* standalone exclude block the collect gets to
HoistsExcludeOfExclude(d) ==
    /\ d.form = "Composite"
    /\ d.kind # <<>>
    /\ \E k \in 1..Len(OperatorValues(d)) :
          /\ OperatorValues(d)[k].form = "Exclude"
          /\ \A j \in 1..(k - 1) : EntryParses(OperatorValues(d)[j])
          /\ ReachesExcludeBlock(OperatorValues(d)[k].exclude)

\* C30 as stated: a standalone exclude block that is a direct entry of
\* another standalone exclude block's list or of the exclude list of a
\* method atom, of whatever method, makes the parse fail with "Top level
\* exclude not allowed" (when the parser gets as far as the block and, for
\* an atom that refers to a selector, the selector resolves).
C30_ExcludeInAnyExcludeListRejected ==
    /\ ( /\ IsAtomCall
         /\ surface.form = "Method"
         /\ surface.exclude # None
         /\ IsReference(surface) => Referenced(surface).ok
         /\ ReachesExcludeBlock(surface.exclude[1]) )
       => (Rejected /\ outcome.err = TopLevelExclude)
    /\ ( /\ IsCompositeCall
         /\ HoistsExcludeOfExclude(surface) )
       => (Rejected /\ outcome.err = TopLevelExclude)

\* C30 amended: a standalone exclude block that is a direct entry of
\* another standalone exclude block's list, or of the exclude list of a
\* method atom whose method is not "selector", makes the parse fail with
\* "Top level exclude not allowed" (when the parser gets as far as the
\* block); only as a direct entry of a composite list is it hoisted.
C30_ExcludeInParsedExcludeListRejected ==
    /\ ( /\ IsAtomCall
         /\ HasExcludeList(surface)
         /\ ReachesExcludeBlock(surface.exclude[1]) )
       => /\ Rejected
          /\ outcome.err = TopLevelExclude
          /\ expr = NoExpr
    /\ ( /\ IsCompositeCall
         /\ HoistsExcludeOfExclude(surface) )
       => /\ Rejected
          /\ outcome.err = TopLevelExclude
          /\ expr = NoExpr
    /\ ( /\ IsAtomCall
         /\ surface.form = "Exclude" )
       => (Rejected /\ outcome.err = TopLevelExclude)

\* C30 happens: a composite has been rejected with "Top level exclude not
\* allowed" whose only entry is an exclude block that holds an exclude block
\* of an entry that parses.
C30_Witness ==
    /\ Rejected
    /\ IsCompositeCall
    /\ HoistsExcludeOfExclude(surface)
    /\ Len(OperatorValues(surface)) = 1
    /\ OperatorValues(surface)[1].exclude[1].form = "Exclude"
    /\ \A k \in 1..Len(OperatorValues(surface)[1].exclude[1].exclude) :
          ParsedAlone(OperatorValues(surface)[1].exclude[1].exclude[k]).ok
    /\ outcome.err = TopLevelExclude

====
